---- MODULE Spec2Model ----
(***************************************************************************)
(* Terramod backend: the infrastructure graph (IR), its flat export and    *)
(* import, and the tiered validation engine.                               *)
(*                                                                         *)
(* A Python dict keeps insertion order, and the rules iterate in that      *)
(* order, so every dict of the program is a sequence of entries here, in   *)
(* insertion order, keyed by the entry's id.  Layout-only fields           *)
(* (position, width, height) carry no semantic weight and are left out.    *)
(***************************************************************************)
EXTENDS Integers, Sequences, FiniteSets, TLC

VARIABLES domains, resources, connections, ret, registry, overrides, results,
          domain_index, files, config, expansion, terraform_project

vars == <<domains, resources, connections, ret, registry, overrides, results,
          domain_index, files, config, expansion, terraform_project>>
\* The state of the components a graph or an engine call does not touch:
\* the registry's per-domain index, the files handed to the parser, the
\* deployment configuration, the last result of the expander and the last
\* project the generator emitted.
apart == <<domain_index, files, config, expansion, terraform_project>>

(***************************************************************************)
(* Bounds of the model.                                                    *)
(***************************************************************************)
MaxDomains == 2
MaxResources == 2
MaxConnections == 1
\* Longest membership list a domain is let grow to (stale ids can pile up).
MaxMembers == 2

None == "None"

DomainIds == {"d" \o ToString(i) : i \in 1..MaxDomains}
ResourceIds == {"r" \o ToString(i) : i \in 1..MaxResources}
ConnectionIds == {"c" \o ToString(i) : i \in 1..MaxConnections}

(***************************************************************************)
(* Enumerations: a member is a pair of its class and its value, so that    *)
(* .value and the constructor call are conversions and not the identity.   *)
(***************************************************************************)
DomainTypeValues ==
    {"networking", "compute", "serverless", "data", "storage", "messaging",
     "identity", "observability", "edge"}
NodeTypeValues == {"resource", "domain"}
ConnectionTypeValues == {"data", "dependency", "implicit"}

\* The constructor call on a string that is no value of the enum raises:
\* the empty tuple stands for that.
DomainType(v) == IF v \in DomainTypeValues THEN <<"DomainType", v>> ELSE <<>>
NodeType(v) == IF v \in NodeTypeValues THEN <<"NodeType", v>> ELSE <<>>
ConnectionType(v) == IF v \in ConnectionTypeValues THEN <<"ConnectionType", v>> ELSE <<>>
value(member) == member[2]
\* NodeType and the other enums derive from str: a member equals its value.
StrEq(member, str) == value(member) = str

(***************************************************************************)
(* Python values of the open attribute map: a value carries its type tag.  *)
(* A str is the sequence of its pieces, so that the substring test         *)
(* `piece in s` is membership of the piece.                                *)
(***************************************************************************)
PyNone == [t |-> "none", v |-> <<>>]
\* The empty string has no piece.
Str(s) == [t |-> "str", v |-> IF s = "" THEN <<>> ELSE <<s>>]
StrOf(pieces) == [t |-> "str", v |-> pieces]
\* An int keeps its number in a field of its own.
PyInt(n) == [t |-> "int", v |-> <<>>, n |-> n]
List(items) == [t |-> "list", v |-> items]
Dict(map) == [t |-> "dict", v |-> map]
EmptyDict == <<>>
\* bool(x)
Truthy(x) ==
    CASE x.t = "none" -> FALSE
      [] x.t = "int" -> x.n # 0
      [] x.t = "dict" -> DOMAIN x.v # {}
      [] OTHER -> Len(x.v) > 0
\* d.get(key, default) on a dict of the attribute map
DictGet(map, key, default) == IF key \in DOMAIN map THEN map[key] ELSE default
isinstance(x, type) == x.t = type
\* `piece in str(x)`
InStr(piece, x) == x.t = "str" /\ \E i \in DOMAIN x.v : x.v[i] = piece
\* `item in x` for a list x of str, or a str x
InList(item, x) ==
    IF x.t = "list" THEN \E i \in DOMAIN x.v : x.v[i].t = "str" /\ x.v[i].v = <<item>>
    ELSE InStr(item, x)

(***************************************************************************)
(* Dict helpers over sequences of entries keyed by id.                     *)
(***************************************************************************)
Keys(dict) == {dict[i].id : i \in DOMAIN dict}
Get(dict, key) == dict[CHOOSE i \in DOMAIN dict : dict[i].id = key]
Del(dict, key) == SelectSeq(dict, LAMBDA e : e.id # key)
Set(dict, entry) ==
    IF entry.id \in Keys(dict)
    THEN [i \in DOMAIN dict |-> IF dict[i].id = entry.id THEN entry ELSE dict[i]]
    ELSE Append(dict, entry)
Elems(list) == {list[i] : i \in DOMAIN list}
\* list.remove(x): drops the first occurrence.
Remove(list, x) ==
    LET first == CHOOSE i \in DOMAIN list : list[i] = x /\ \A j \in 1..(i - 1) : list[j] # x
    IN [i \in 1..(Len(list) - 1) |-> IF i < first THEN list[i] ELSE list[i + 1]]

Graph == [domains |-> domains, resources |-> resources, connections |-> connections]
EmptyGraph == [domains |-> <<>>, resources |-> <<>>, connections |-> <<>>]

\* The outcome of a call: the graph after it and the exception raised, if any.
NoError == <<>>
Ok(g) == [graph |-> g, error |-> NoError]
ValueError(g, what, id, why) == [graph |-> g, error |-> <<"ValueError", what, id, why>>]
\* What a caller sees of a call: nothing, or the exception and the method that raised it.
Raised(op, error) == IF error = NoError THEN NoError ELSE <<op>> \o error

(***************************************************************************)
(* InfrastructureGraph: domain operations.                                 *)
(***************************************************************************)
add_domain(g, domain) ==
    IF domain.id \in Keys(g.domains)
    THEN ValueError(g, "Domain", domain.id, "already exists")
    ELSE Ok([g EXCEPT !.domains = Append(g.domains, domain)])

\* setattr for one key of the updates dict; a key the entity has no
\* attribute of is skipped (hasattr).
SetAttr(entity, key, val) ==
    IF key \in DOMAIN entity THEN [entity EXCEPT ![key] = val] ELSE entity

update_domain(g, domain_id, key, val) ==
    IF domain_id \notin Keys(g.domains)
    THEN ValueError(g, "Domain", domain_id, "not found")
    ELSE Ok([g EXCEPT !.domains = Set(g.domains, SetAttr(Get(g.domains, domain_id), key, val))])

delete_resource(g, resource_id) ==
    IF resource_id \in Keys(g.resources)
    THEN LET resource == Get(g.resources, resource_id)
             doms == IF resource.domain_id \in Keys(g.domains)
                     THEN LET domain == Get(g.domains, resource.domain_id)
                          IN IF resource_id \in Elems(domain.resource_ids)
                             THEN Set(g.domains,
                                      [domain EXCEPT !.resource_ids = Remove(domain.resource_ids, resource_id)])
                             ELSE g.domains
                     ELSE g.domains
         IN Ok([g EXCEPT !.domains = doms, !.resources = Del(g.resources, resource_id)])
    ELSE Ok(g)

RECURSIVE DeleteAll(_, _)
\* for resource_id in domain.resource_ids[:]: self.delete_resource(resource_id)
DeleteAll(g, ids) ==
    IF ids = <<>> THEN g
    ELSE DeleteAll(delete_resource(g, Head(ids)).graph, Tail(ids))

delete_domain(g, domain_id) ==
    IF domain_id \in Keys(g.domains)
    THEN LET after == DeleteAll(g, Get(g.domains, domain_id).resource_ids)
         IN Ok([after EXCEPT !.domains = Del(after.domains, domain_id)])
    ELSE Ok(g)

(***************************************************************************)
(* InfrastructureGraph: resource operations.                               *)
(***************************************************************************)
\* A slip of add_resource: the membership update is guarded, the insertion is not.
add_resource_orphan(g, resource) ==
    IF resource.id \in Keys(g.resources)
    THEN ValueError(g, "Resource", resource.id, "already exists")
    ELSE IF resource.domain_id \notin Keys(g.domains)
    THEN Ok([g EXCEPT !.resources = Append(g.resources, resource)])
    ELSE LET domain == Get(g.domains, resource.domain_id)
         IN Ok([g EXCEPT !.resources = Append(g.resources, resource),
                         !.domains = Set(g.domains,
                                         [domain EXCEPT !.resource_ids = Append(domain.resource_ids, resource.id)])])

add_resource(g, resource) ==
    IF resource.id \in Keys(g.resources)
    THEN ValueError(g, "Resource", resource.id, "already exists")
    ELSE IF resource.domain_id \notin Keys(g.domains)
    THEN ValueError(g, "Domain", resource.domain_id, "not found")
    ELSE LET domain == Get(g.domains, resource.domain_id)
         IN Ok([g EXCEPT !.resources = Append(g.resources, resource),
                         !.domains = Set(g.domains,
                                         [domain EXCEPT !.resource_ids = Append(domain.resource_ids, resource.id)])])

update_resource(g, resource_id, key, val) ==
    IF resource_id \notin Keys(g.resources)
    THEN ValueError(g, "Resource", resource_id, "not found")
    ELSE Ok([g EXCEPT !.resources = Set(g.resources, SetAttr(Get(g.resources, resource_id), key, val))])

(***************************************************************************)
(* InfrastructureGraph: connection operations.                             *)
(***************************************************************************)
\* A slip of add_connection: the entry is stored whether or not the id is taken.
add_connection_overwrite(g, connection) ==
    Ok([g EXCEPT !.connections = Set(g.connections, connection)])

add_connection(g, connection) ==
    IF connection.id \in Keys(g.connections)
    THEN ValueError(g, "Connection", connection.id, "already exists")
    ELSE Ok([g EXCEPT !.connections = Append(g.connections, connection)])

update_connection(g, connection_id, key, val) ==
    IF connection_id \notin Keys(g.connections)
    THEN ValueError(g, "Connection", connection_id, "not found")
    ELSE Ok([g EXCEPT !.connections = Set(g.connections, SetAttr(Get(g.connections, connection_id), key, val))])

delete_connection(g, connection_id) ==
    IF connection_id \in Keys(g.connections)
    THEN Ok([g EXCEPT !.connections = Del(g.connections, connection_id)])
    ELSE Ok(g)

(***************************************************************************)
(* IR export and import.                                                   *)
(***************************************************************************)
get_dependencies(g, resource_id) ==
    LET deps == SelectSeq(g.connections,
                          LAMBDA conn : conn.target_id = resource_id /\ StrEq(conn.source_type, "resource"))
    IN [i \in DOMAIN deps |-> deps[i].source_id]

to_ir(g) ==
    [version |-> "1.0",
     resources |-> [i \in DOMAIN g.resources |->
        LET r == g.resources[i]
        IN [id |-> r.id, type |-> r.type, domain |-> r.domain_id, name |-> r.name,
            attributes |-> r.arguments, depends_on |-> get_dependencies(g, r.id)]],
     domains |-> [i \in DOMAIN g.domains |->
        LET d == g.domains[i]
        IN [id |-> d.id, name |-> d.name, type |-> value(d.type), resources |-> d.resource_ids]],
     connections |-> [i \in DOMAIN g.connections |->
        LET c == g.connections[i]
        IN [id |-> c.id, source |-> c.source_id, target |-> c.target_id,
            source_type |-> value(c.source_type), target_type |-> value(c.target_type),
            type |-> value(c.connection_type),
            output_name |-> c.output_name, input_name |-> c.input_name]]]

\* One iteration of each of from_ir's three loops.
ImportDomain(g, domain_data) ==
    IF DomainType(domain_data.type) = <<>>
    THEN ValueError(g, "DomainType", domain_data.type, "is not a valid DomainType")
    ELSE add_domain(g, [id |-> domain_data.id, name |-> domain_data.name,
                        type |-> DomainType(domain_data.type), resource_ids |-> <<>>])

ImportResource(g, resource_data) ==
    add_resource(g, [id |-> resource_data.id, type |-> resource_data.type,
                     domain_id |-> resource_data.domain, name |-> resource_data.name,
                     arguments |-> resource_data.attributes])

ImportConnection(g, conn_data) ==
    IF NodeType(conn_data.source_type) = <<>> \/ NodeType(conn_data.target_type) = <<>>
    THEN ValueError(g, "NodeType", conn_data.id, "is not a valid NodeType")
    ELSE IF ConnectionType(conn_data.type) = <<>>
    THEN ValueError(g, "ConnectionType", conn_data.type, "is not a valid ConnectionType")
    ELSE add_connection(g, [id |-> conn_data.id, source_id |-> conn_data.source,
                            target_id |-> conn_data.target,
                            source_type |-> NodeType(conn_data.source_type),
                            target_type |-> NodeType(conn_data.target_type),
                            connection_type |-> ConnectionType(conn_data.type),
                            output_name |-> conn_data.output_name,
                            input_name |-> conn_data.input_name])

RECURSIVE ImportEach(_, _, _)
\* A loop of from_ir over one list of the IR; an exception ends the import.
ImportEach(out, kind, items) ==
    IF out.error # NoError \/ items = <<>> THEN out
    ELSE LET next == CASE kind = "domains" -> ImportDomain(out.graph, Head(items))
                       [] kind = "resources" -> ImportResource(out.graph, Head(items))
                       [] kind = "connections" -> ImportConnection(out.graph, Head(items))
         IN ImportEach(next, kind, Tail(items))

from_ir(ir) ==
    ImportEach(ImportEach(ImportEach(Ok(EmptyGraph), "domains", ir.domains),
                          "resources", ir.resources),
               "connections", ir.connections)

(***************************************************************************)
(* Inputs of the calls.                                                    *)
(***************************************************************************)
EndpointIds == DomainIds \cup ResourceIds

DomainInputs ==
    [id : DomainIds, name : {"net"}, type : {DomainType("networking")}, resource_ids : {<<>>}]
ResourceInputs ==
    [id : ResourceIds, type : {"aws_instance"}, domain_id : DomainIds, name : {"web"},
     arguments : {[subnet_id |-> Str("subnet-1")]}]
ConnectionInputs ==
    [id : ConnectionIds, source_id : ResourceIds, target_id : ResourceIds,
     source_type : {NodeType("resource"), NodeType("domain")},
     target_type : {NodeType("resource")},
     connection_type : {ConnectionType("data")},
     output_name : {"id"}, input_name : {None}]
\* One key of an updates dict; "tags" is an attribute no entity has.
DomainUpdates == {<<"name", "core">>, <<"tags", "x">>}
ResourceUpdates == ({"domain_id"} \X DomainIds) \cup {<<"tags", "x">>}
ConnectionUpdates == {<<"connection_type", ConnectionType("dependency")>>, <<"tags", "x">>}

(***************************************************************************)
(* The state machine: one action per call on the graph.                    *)
(***************************************************************************)
Init ==
    /\ domains = <<>>
    /\ resources = <<>>
    /\ connections = <<>>
    /\ ret = NoError
    /\ registry = <<>>
    /\ overrides = <<>>
    /\ results = <<>>
    /\ domain_index = <<>>
    /\ files = <<>>
    /\ config = <<>>
    /\ expansion = <<>> /\ terraform_project = <<>>

Call(op, out) ==
    /\ domains' = out.graph.domains
    /\ resources' = out.graph.resources
    /\ connections' = out.graph.connections
    /\ ret' = Raised(op, out.error)
    /\ UNCHANGED <<registry, overrides, results, apart>>

AddDomain == \E d \in DomainInputs : Call("add_domain", add_domain(Graph, d))
UpdateDomain ==
    \E id \in DomainIds, u \in DomainUpdates : Call("update_domain", update_domain(Graph, id, u[1], u[2]))
DeleteDomain == \E id \in DomainIds : Call("delete_domain", delete_domain(Graph, id))
AddResource ==
    \E r \in ResourceInputs :
        /\ \A i \in DOMAIN domains : Len(domains[i].resource_ids) < MaxMembers
        /\ Call("add_resource", add_resource(Graph, r))
UpdateResource ==
    \E id \in ResourceIds, u \in ResourceUpdates : Call("update_resource", update_resource(Graph, id, u[1], u[2]))
DeleteResource == \E id \in ResourceIds : Call("delete_resource", delete_resource(Graph, id))
AddConnection == \E c \in ConnectionInputs : Call("add_connection", add_connection(Graph, c))
UpdateConnection ==
    \E id \in ConnectionIds, u \in ConnectionUpdates :
        Call("update_connection", update_connection(Graph, id, u[1], u[2]))
DeleteConnection == \E id \in ConnectionIds : Call("delete_connection", delete_connection(Graph, id))

Next ==
    \/ AddDomain \/ UpdateDomain \/ DeleteDomain
    \/ AddResource \/ UpdateResource \/ DeleteResource
    \/ AddConnection \/ UpdateConnection \/ DeleteConnection

Spec == Init /\ [][Next]_vars

(***************************************************************************)
(* Claims about the graph operations.                                      *)
(***************************************************************************)
GraphUnchanged == UNCHANGED <<domains, resources, connections>>
RaisedBy(op) == Len(ret) > 0 /\ ret[1] = op

MembersOf(g, domain_id) ==
    {g.resources[i].id : i \in {j \in DOMAIN g.resources : g.resources[j].domain_id = domain_id}}

\* Whether an endpoint of a connection names an existing entity of its declared kind.
Resolves(g, id, kind) ==
    IF StrEq(kind, "resource") THEN id \in Keys(g.resources) ELSE id \in Keys(g.domains)

\* C1: in every reachable graph, each domain's resource_ids holds exactly the
\* ids of the resources whose domain_id is that domain's id.
C1_MembershipMatchesDomainId ==
    \A i \in DOMAIN domains :
        Elems(domains[i].resource_ids) = MembersOf(Graph, domains[i].id)

\* The outcome of a call is an exception and the graph the call was made on.
Rejects(out, g) == out.error # NoError /\ out.graph = g

\* C2: in every reachable graph, an add_resource call whose domain_id names no
\* domain of the graph raises and leaves domains, resources and connections
\* as they were.
C2_UnknownDomainRejected ==
    \A r \in ResourceInputs :
        r.domain_id \notin Keys(domains) => Rejects(add_resource(Graph, r), Graph)

C2_Witness ==
    /\ RaisedBy("add_resource")
    /\ ret[3] = "Domain" /\ ret[5] = "not found"
    /\ ret[4] \notin Keys(domains)
    /\ domains # <<>>

\* C3: every add_connection call with a source or a target that does not
\* resolve to an entity of its declared kind raises and adds no connection.
C3_DanglingEndpointRejected ==
    [][\A c \in ConnectionInputs :
          (/\ ~(Resolves(Graph, c.source_id, c.source_type) /\ Resolves(Graph, c.target_id, c.target_type))
           /\ Call("add_connection", add_connection(Graph, c)))
              => (RaisedBy("add_connection")' /\ connections' = connections)]_vars

\* C4: in every reachable graph, each resource's domain_id names a domain of the graph.
C4_DomainIdResolves ==
    \A i \in DOMAIN resources : resources[i].domain_id \in Keys(domains)

\* C5: in every reachable graph, an add_domain, add_resource or add_connection
\* call with an id already in its collection raises and leaves the whole
\* graph as it was.
C5_DuplicateIdRejected ==
    /\ \A d \in DomainInputs :
          d.id \in Keys(domains) => Rejects(add_domain(Graph, d), Graph)
    /\ \A r \in ResourceInputs :
          r.id \in Keys(resources) => Rejects(add_resource(Graph, r), Graph)
    /\ \A c \in ConnectionInputs :
          c.id \in Keys(connections) => Rejects(add_connection(Graph, c), Graph)

C5_Witness ==
    /\ RaisedBy("add_connection")
    /\ ret[5] = "already exists"
    /\ ret[4] \in Keys(connections)
    /\ resources # <<>>

\* Structural equality of two graphs: ids, resource fields, membership, connections.
SameStructure(g, h) ==
    /\ Keys(g.domains) = Keys(h.domains)
    /\ Keys(g.resources) = Keys(h.resources)
    /\ Keys(g.connections) = Keys(h.connections)
    /\ \A id \in Keys(g.resources) : Get(g.resources, id) = Get(h.resources, id)
    /\ \A id \in Keys(g.domains) :
          /\ Get(g.domains, id).name = Get(h.domains, id).name
          /\ Get(g.domains, id).type = Get(h.domains, id).type
          /\ Elems(Get(g.domains, id).resource_ids) = Elems(Get(h.domains, id).resource_ids)
    /\ \A id \in Keys(g.connections) : Get(g.connections, id) = Get(h.connections, id)

\* C6: for every reachable graph G, from_ir(to_ir(G)) succeeds and is
\* structurally equal to G.
C6_RoundTrip ==
    LET out == from_ir(to_ir(Graph))
    IN out.error = NoError /\ SameStructure(Graph, out.graph)

(***************************************************************************)
(* Validation engine: tiers, messages and the default rules.               *)
(***************************************************************************)
TIER_0_GRAPH_INTEGRITY == 0
TIER_1_SECURITY == 1
TIER_2_AWS_ARCHITECTURE == 2
TIER_3_BEST_PRACTICE == 3

\* A ValidationMessage; the message is the sequence of the pieces of its text.
ValidationMessage(element_id, severity, message, tier, rule_id, fix_hint, override_allowed) ==
    [element_id |-> element_id, severity |-> severity, message |-> message, tier |-> tier,
     rule_id |-> rule_id, fix_hint |-> fix_hint, override_allowed |-> override_allowed]

\* The messages of a loop over a list: one call of Body per item, in order.
ForEach(items, Body(_)) ==
    LET RECURSIVE From(_)
        From(i) == IF i > Len(items) THEN <<>> ELSE Body(items[i]) \o From(i + 1)
    IN From(1)
When(cond, msg) == IF cond THEN <<msg>> ELSE <<>>

OrphanResourceRule(g) ==
    ForEach(g.resources, LAMBDA resource :
        When(resource.domain_id \notin Keys(g.domains),
             ValidationMessage(resource.id, "error",
                 <<"Resource", resource.name, "belongs to non-existent domain", resource.domain_id>>,
                 TIER_0_GRAPH_INTEGRITY, "graph-orphan-resource",
                 <<"Assign resource to a valid domain">>, FALSE)))

\* adjacency: source id -> list of target ids, keyed in order of first appearance.
RECURSIVE Adjacency(_, _)
Adjacency(conns, adjacency) ==
    IF conns = <<>> THEN adjacency
    ELSE LET conn == Head(conns)
             old == IF conn.source_id \in Keys(adjacency)
                    THEN Get(adjacency, conn.source_id).targets ELSE <<>>
         IN Adjacency(Tail(conns),
                      Set(adjacency, [id |-> conn.source_id, targets |-> Append(old, conn.target_id)]))

RECURSIVE has_cycle(_, _, _, _), VisitNeighbors(_, _, _, _, _)
\* has_cycle(node, visited, rec_stack): the answer, with the two sets as the
\* call leaves them (both are mutated in place).
has_cycle(adjacency, node, visited, rec_stack) ==
    VisitNeighbors(adjacency, node, 1, visited \cup {node}, rec_stack \cup {node})

\* A slip of the search: a neighbour seen before counts as a back edge
\* whether or not it is still on the recursion stack.
VisitNeighbors_any_visited(adjacency, node, i, visited, rec_stack) ==
    LET neighbors == IF node \in Keys(adjacency) THEN Get(adjacency, node).targets ELSE <<>>
    IN IF i > Len(neighbors)
       THEN [cycle |-> FALSE, visited |-> visited, rec_stack |-> rec_stack \ {node}]
       ELSE IF neighbors[i] \in visited
       THEN [cycle |-> TRUE, visited |-> visited, rec_stack |-> rec_stack]
       ELSE LET sub == has_cycle(adjacency, neighbors[i], visited, rec_stack)
            IN IF sub.cycle THEN sub
               ELSE VisitNeighbors(adjacency, node, i + 1, sub.visited, sub.rec_stack)

VisitNeighbors(adjacency, node, i, visited, rec_stack) ==
    LET neighbors == IF node \in Keys(adjacency) THEN Get(adjacency, node).targets ELSE <<>>
    IN IF i > Len(neighbors)
       THEN [cycle |-> FALSE, visited |-> visited, rec_stack |-> rec_stack \ {node}]
       ELSE LET neighbor == neighbors[i]
            IN IF neighbor \notin visited
               THEN LET sub == has_cycle(adjacency, neighbor, visited, rec_stack)
                    IN IF sub.cycle THEN sub
                       ELSE VisitNeighbors(adjacency, node, i + 1, sub.visited, sub.rec_stack)
               ELSE IF neighbor \in rec_stack
               THEN [cycle |-> TRUE, visited |-> visited, rec_stack |-> rec_stack]
               ELSE VisitNeighbors(adjacency, node, i + 1, visited, rec_stack)

RECURSIVE CycleScan(_, _, _)
\* The loop over adjacency.keys(): the first node whose search finds a cycle
\* gets the one message, then break.
CycleScan(adjacency, i, visited) ==
    IF i > Len(adjacency) THEN <<>>
    ELSE LET node == adjacency[i].id
         IN IF node \in visited THEN CycleScan(adjacency, i + 1, visited)
            ELSE LET found == has_cycle(adjacency, node, visited, {})
                 IN IF found.cycle
                    THEN <<ValidationMessage(node, "error",
                               <<"Circular dependency detected in infrastructure graph">>,
                               TIER_0_GRAPH_INTEGRITY, "graph-circular-dependency",
                               <<"Remove circular references between resources">>, FALSE)>>
                    ELSE CycleScan(adjacency, i + 1, found.visited)

CircularDependencyRule(g) == CycleScan(Adjacency(g.connections, <<>>), 1, {})

\* The names seen before position i of a list of named entities.
NamesBefore(entities, i) == {entities[j].name : j \in 1..(i - 1)}

DuplicateNameRule(g) ==
    LET DomainMessages ==
            ForEach([i \in DOMAIN g.domains |-> i], LAMBDA i :
                When(g.domains[i].name \in NamesBefore(g.domains, i),
                     ValidationMessage(g.domains[i].id, "error",
                         <<"Duplicate domain name:", g.domains[i].name>>,
                         TIER_0_GRAPH_INTEGRITY, "graph-duplicate-name",
                         <<"Use unique domain names">>, FALSE)))
        \* resource_ids of the domain that name a resource of the graph
        Members(domain) ==
            LET present == SelectSeq(domain.resource_ids, LAMBDA rid : rid \in Keys(g.resources))
            IN [i \in DOMAIN present |-> Get(g.resources, present[i])]
        ResourceMessages ==
            ForEach(g.domains, LAMBDA domain :
                ForEach([i \in DOMAIN Members(domain) |-> i], LAMBDA i :
                    When(Members(domain)[i].name \in NamesBefore(Members(domain), i),
                         ValidationMessage(Members(domain)[i].id, "error",
                             <<"Duplicate resource name in domain", domain.name, Members(domain)[i].name>>,
                             TIER_0_GRAPH_INTEGRITY, "graph-duplicate-name",
                             <<"Use unique resource names within each domain">>, FALSE))))
    IN DomainMessages \o ResourceMessages

\* registry.get_service(type): the entry, or a one/zero-element list standing for None.
get_service(reg, resource_type) == SelectSeq(reg, LAMBDA service : service.id = resource_type)

RequiredInputsRule(g, reg) ==
    ForEach(g.resources, LAMBDA resource :
        IF get_service(reg, resource.type) = <<>> THEN <<>>
        ELSE ForEach(get_service(reg, resource.type)[1].required_inputs, LAMBDA required_input :
                When(required_input \notin DOMAIN resource.arguments
                        \/ ~Truthy(resource.arguments[required_input]),
                     ValidationMessage(resource.id, "error",
                         <<"Missing required input", required_input, "for", resource.type>>,
                         TIER_0_GRAPH_INTEGRITY, "graph-required-inputs",
                         <<"Provide a value for", required_input>>, FALSE))))

ReferenceIntegrityRule(g) ==
    LET Missing(conn, side, kind, id) ==
            ValidationMessage(conn.id, "error",
                <<"Connection references non-existent", side, kind, id>>,
                TIER_0_GRAPH_INTEGRITY, "graph-reference-integrity",
                <<"Remove invalid connection or create referenced", kind>>, FALSE)
        EndMessages(conn, id, kind, side) ==
            IF StrEq(kind, "resource")
            THEN When(id \notin Keys(g.resources), Missing(conn, side, "resource", id))
            ELSE IF StrEq(kind, "domain")
            THEN When(id \notin Keys(g.domains), Missing(conn, side, "domain", id))
            ELSE <<>>
    IN ForEach(g.connections, LAMBDA conn :
           EndMessages(conn, conn.source_id, conn.source_type, "source")
               \o EndMessages(conn, conn.target_id, conn.target_type, "target"))

\* _has_wildcard_actions / _has_wildcard_resources: some statement of the
\* policy lists, or is, one of the wildcards under the given key.
HasWildcard(policy, key, wildcards) ==
    /\ isinstance(policy, "dict")
    /\ "Statement" \in DOMAIN policy.v
    /\ \E i \in DOMAIN policy.v["Statement"].v :
          LET statement == policy.v["Statement"].v[i]
              listed == DictGet(statement.v, key, List(<<>>))
          IN /\ isinstance(statement, "dict")
             /\ IF isinstance(listed, "list")
                THEN \E w \in wildcards : InList(w, listed)
                ELSE \E w \in wildcards : listed = Str(w)

IAMLeastPrivilegeRule(g) ==
    LET Finding(resource, message, fix_hint) ==
            ValidationMessage(resource.id, "error", message, TIER_1_SECURITY,
                              "security-iam-least-privilege", fix_hint, TRUE)
    IN ForEach(g.resources, LAMBDA resource :
        IF resource.type # "aws_iam_role" THEN <<>>
        ELSE LET assume_role_policy == DictGet(resource.arguments, "assume_role_policy", Dict(EmptyDict))
                 managed_policies == DictGet(resource.arguments, "managed_policy_arns", List(<<>>))
             IN When(HasWildcard(assume_role_policy, "Action", {"*", "*:*"}),
                     Finding(resource, <<"IAM role", resource.name, "has wildcard actions (*:*) - violates least privilege">>,
                             <<"Scope actions to specific AWS services">>))
                \o When(HasWildcard(assume_role_policy, "Resource", {"*"}),
                        Finding(resource, <<"IAM role", resource.name, "has wildcard resources (*) - violates least privilege">>,
                                <<"Scope resources to specific ARNs">>))
                \o (IF isinstance(managed_policies, "list")
                    THEN ForEach(managed_policies.v, LAMBDA policy :
                            When(InStr("AdministratorAccess", policy),
                                 Finding(resource, <<"IAM role", resource.name, "has AdministratorAccess - forbidden in Terramod">>,
                                         <<"Create custom policy with specific permissions needed">>)))
                    ELSE <<>>))

ADMIN_PORTS == <<22, 3389>>

AdminPortsRule(g) ==
    ForEach(g.resources, LAMBDA resource :
        LET ingress_rules == DictGet(resource.arguments, "ingress", List(<<>>))
        IN IF resource.type # "aws_security_group" \/ ~isinstance(ingress_rules, "list") THEN <<>>
           ELSE ForEach(ingress_rules.v, LAMBDA rule :
                IF ~isinstance(rule, "dict") THEN <<>>
                ELSE LET from_port == DictGet(rule.v, "from_port", PyNone)
                         to_port == DictGet(rule.v, "to_port", PyNone)
                         cidr_blocks == DictGet(rule.v, "cidr_blocks", List(<<>>))
                     IN ForEach(ADMIN_PORTS, LAMBDA admin_port :
                            When(/\ Truthy(from_port) /\ Truthy(to_port)
                                 /\ from_port.n <= admin_port /\ admin_port <= to_port.n
                                 /\ InList("0.0.0.0/0", cidr_blocks),
                                 ValidationMessage(resource.id, "error",
                                     <<"Security group", resource.name,
                                       IF admin_port = 22 THEN "has SSH (port 22) open to 0.0.0.0/0"
                                       ELSE "has RDP (port 3389) open to 0.0.0.0/0">>,
                                     TIER_1_SECURITY, "security-admin-ports-open",
                                     <<"Restrict", IF admin_port = 22 THEN "SSH" ELSE "RDP",
                                       "access to specific IP ranges">>, TRUE)))))

\* The vpc_config of a Lambda that the VPC rules look into: a non-empty dict.
VpcConfigured(resource) ==
    /\ resource.type = "aws_lambda_function"
    /\ Truthy(DictGet(resource.arguments, "vpc_config", PyNone))
    /\ isinstance(DictGet(resource.arguments, "vpc_config", PyNone), "dict")

LambdaVPCSecurityRule(g) ==
    LET Finding(resource, what) ==
            ValidationMessage(resource.id, "error",
                <<"Lambda", resource.name, "in VPC must have", what>>,
                TIER_1_SECURITY, "security-lambda-vpc-config",
                <<"Add", what, "to vpc_config">>, FALSE)
    IN ForEach(g.resources, LAMBDA resource :
        IF ~VpcConfigured(resource) THEN <<>>
        ELSE LET vpc_config == resource.arguments["vpc_config"].v
             IN When(~Truthy(DictGet(vpc_config, "security_group_ids", List(<<>>))),
                     Finding(resource, "security_group_ids"))
                \o When(~Truthy(DictGet(vpc_config, "subnet_ids", List(<<>>))),
                        Finding(resource, "subnet_ids")))

LambdaVPCRule(g) ==
    LET Finding(resource, what) ==
            ValidationMessage(resource.id, "error",
                <<"Lambda", resource.name, "VPC config missing", what>>,
                TIER_2_AWS_ARCHITECTURE, "aws-lambda-vpc",
                <<"Add", what, "to vpc_config">>, FALSE)
    IN ForEach(g.resources, LAMBDA resource :
        IF ~VpcConfigured(resource) THEN <<>>
        ELSE LET vpc_config == resource.arguments["vpc_config"].v
             IN When(~Truthy(DictGet(vpc_config, "subnet_ids", PyNone)),
                     Finding(resource, "subnet_ids"))
                \o When(~Truthy(DictGet(vpc_config, "security_group_ids", PyNone)),
                        Finding(resource, "security_group_ids")))

EC2SubnetRule(g) ==
    ForEach(g.resources, LAMBDA resource :
        When(resource.type = "aws_instance"
                /\ ~Truthy(DictGet(resource.arguments, "subnet_id", PyNone)),
             ValidationMessage(resource.id, "error",
                 <<"EC2 instance", resource.name, "must specify subnet_id">>,
                 TIER_2_AWS_ARCHITECTURE, "aws-ec2-subnet",
                 <<"Add subnet_id argument to place instance in a subnet">>, FALSE)))

LambdaIAMRoleRule(g) ==
    ForEach(g.resources, LAMBDA resource :
        When(resource.type = "aws_lambda_function"
                /\ ~Truthy(DictGet(resource.arguments, "role", PyNone)),
             ValidationMessage(resource.id, "error",
                 <<"Lambda function", resource.name, "must have IAM role">>,
                 TIER_2_AWS_ARCHITECTURE, "aws-lambda-iam-role",
                 <<"Add 'role' argument with IAM role ARN">>, FALSE)))

IAMRoleUsageRule(g) ==
    LET iam_roles == SelectSeq(g.resources, LAMBDA r : r.type = "aws_iam_role")
        \* resource.arguments.get('role') or resource.arguments.get('iam_role_arn')
        RoleRef(resource) ==
            IF Truthy(DictGet(resource.arguments, "role", PyNone))
            THEN resource.arguments["role"]
            ELSE DictGet(resource.arguments, "iam_role_arn", PyNone)
        \* What one resource adds to referenced_roles: its reference itself, or
        \* the ids of the roles whose name is part of the reference.
        Added(resource) ==
            LET role_ref == RoleRef(resource)
            IN IF ~Truthy(role_ref) THEN {}
               ELSE IF InStr("aws_iam_role", role_ref) THEN {role_ref.v}
               ELSE {<<iam_roles[i].id>> : i \in {j \in DOMAIN iam_roles : InStr(iam_roles[j].name, role_ref)}}
        referenced_roles == UNION {Added(g.resources[i]) : i \in DOMAIN g.resources}
    IN ForEach(iam_roles, LAMBDA role :
        When(<<role.id>> \notin referenced_roles,
             ValidationMessage(role.id, "warning",
                 <<"IAM role", role.name, "is not referenced by any resource">>,
                 TIER_2_AWS_ARCHITECTURE, "aws-iam-role-usage",
                 <<"Either use this role or remove it">>, FALSE)))

(***************************************************************************)
(* ValidationEngine.                                                       *)
(***************************************************************************)
\* self.rules after _register_default_rules, in registration order.
DefaultRules ==
    <<"OrphanResourceRule", "CircularDependencyRule", "DuplicateNameRule",
      "RequiredInputsRule", "ReferenceIntegrityRule",
      "IAMLeastPrivilegeRule", "AdminPortsRule", "LambdaVPCSecurityRule",
      "LambdaVPCRule", "EC2SubnetRule", "LambdaIAMRoleRule", "IAMRoleUsageRule">>

\* rule.validate(graph)
validate(rule, g, reg) ==
    CASE rule = "OrphanResourceRule" -> OrphanResourceRule(g)
      [] rule = "CircularDependencyRule" -> CircularDependencyRule(g)
      [] rule = "DuplicateNameRule" -> DuplicateNameRule(g)
      [] rule = "RequiredInputsRule" -> RequiredInputsRule(g, reg)
      [] rule = "ReferenceIntegrityRule" -> ReferenceIntegrityRule(g)
      [] rule = "IAMLeastPrivilegeRule" -> IAMLeastPrivilegeRule(g)
      [] rule = "AdminPortsRule" -> AdminPortsRule(g)
      [] rule = "LambdaVPCSecurityRule" -> LambdaVPCSecurityRule(g)
      [] rule = "LambdaVPCRule" -> LambdaVPCRule(g)
      [] rule = "EC2SubnetRule" -> EC2SubnetRule(g)
      [] rule = "LambdaIAMRoleRule" -> LambdaIAMRoleRule(g)
      [] rule = "IAMRoleUsageRule" -> IAMRoleUsageRule(g)

\* Whether the port test of AdminPortsRule raises TypeError for one ingress
\* rule and one admin port: `from_port and to_port and from_port <=
\* admin_port <= to_port and '0.0.0.0/0' in cidr_blocks` is evaluated left to
\* right, so an operand that is no number raises once the test gets to it.
PortTestRaises(rule, admin_port) ==
    LET from_port == DictGet(rule.v, "from_port", PyNone)
        to_port == DictGet(rule.v, "to_port", PyNone)
        cidr_blocks == DictGet(rule.v, "cidr_blocks", List(<<>>))
    IN /\ Truthy(from_port) /\ Truthy(to_port)
       /\ \/ ~isinstance(from_port, "int")
          \/ from_port.n <= admin_port /\ ~isinstance(to_port, "int")
          \/ /\ isinstance(to_port, "int")
             /\ from_port.n <= admin_port /\ admin_port <= to_port.n
             /\ cidr_blocks.t \in {"none", "int"}

\* Whether rule.validate(graph) raises instead of returning its messages.
\* Over the attribute values of this model only AdminPortsRule can.
raises(rule, g, reg) ==
    /\ rule = "AdminPortsRule"
    /\ \E i \in DOMAIN g.resources :
          LET ingress_rules == DictGet(g.resources[i].arguments, "ingress", List(<<>>))
          IN /\ g.resources[i].type = "aws_security_group"
             /\ isinstance(ingress_rules, "list")
             /\ \E j \in DOMAIN ingress_rules.v, k \in DOMAIN ADMIN_PORTS :
                   /\ isinstance(ingress_rules.v[j], "dict")
                   /\ PortTestRaises(ingress_rules.v[j], ADMIN_PORTS[k])

\* overrides: element_id -> [rule_ids]
add_override(ovr, element_id, rule_id) ==
    LET listed == IF element_id \in Keys(ovr) THEN ovr ELSE Append(ovr, [id |-> element_id, rule_ids |-> <<>>])
        entry == Get(listed, element_id)
    IN IF rule_id \notin Elems(entry.rule_ids)
       THEN Set(listed, [entry EXCEPT !.rule_ids = Append(entry.rule_ids, rule_id)])
       ELSE listed

\* A slip of is_overridden: the rule id is looked up under every element.
is_overridden_any_element(ovr, element_id, rule_id) ==
    \E i \in DOMAIN ovr : rule_id \in Elems(ovr[i].rule_ids)

is_overridden(ovr, element_id, rule_id) ==
    element_id \in Keys(ovr) /\ rule_id \in Elems(Get(ovr, element_id).rule_ids)

\* error_text: the message, with the fix hint appended when there is one.
ErrorText(msg) ==
    IF msg.fix_hint # <<>> THEN msg.message \o <<" (Fix: ">> \o msg.fix_hint \o <<")">>
    ELSE msg.message

\* dict[element_id].append(text), the list created on first use.
AppendTo(dict, element_id, text) ==
    LET old == IF element_id \in Keys(dict) THEN Get(dict, element_id).texts ELSE <<>>
    IN Set(dict, [id |-> element_id, texts |-> Append(old, text)])

\* A slip of the tier list: Tier 2 left out.
BlockingTiers_without_tier_2 == {TIER_0_GRAPH_INTEGRITY, TIER_1_SECURITY}

BlockingTiers == {TIER_0_GRAPH_INTEGRITY, TIER_1_SECURITY, TIER_2_AWS_ARCHITECTURE}

\* A slip of the inner loop: an override is honoured whether or not the
\* finding permits one.
Categorize_any_override(out, msg, ovr) ==
    IF is_overridden(ovr, msg.element_id, msg.rule_id) THEN out
    ELSE IF msg.severity = "error"
    THEN [out EXCEPT !.errors = AppendTo(@, msg.element_id, ErrorText(msg)),
                     !.blocking_errors =
                         IF msg.tier \in {0, 1, 2}
                         THEN AppendTo(@, msg.element_id, ErrorText(msg)) ELSE @]
    ELSE [out EXCEPT !.warnings = AppendTo(@, msg.element_id, msg.message)]

\* The body of validate_graph's inner loop, for one message.
Categorize(out, msg, ovr) ==
    IF msg.override_allowed /\ is_overridden(ovr, msg.element_id, msg.rule_id) THEN out
    ELSE IF msg.severity = "error"
    THEN [out EXCEPT !.errors = AppendTo(@, msg.element_id, ErrorText(msg)),
                     !.blocking_errors =
                         IF msg.tier \in BlockingTiers
                         THEN AppendTo(@, msg.element_id, ErrorText(msg)) ELSE @]
    ELSE [out EXCEPT !.warnings = AppendTo(@, msg.element_id, msg.message)]

RECURSIVE CategorizeAll(_, _, _)
CategorizeAll(out, messages, ovr) ==
    IF messages = <<>> THEN out
    ELSE CategorizeAll(Categorize(out, Head(messages), ovr), Tail(messages), ovr)

\* A slip of the rule loop: the try wraps the whole loop, so the first rule
\* that raises ends the run.
AllMessages_until_raise(rules, g, reg) ==
    LET failed == {i \in DOMAIN rules : raises(rules[i], g, reg)}
        run == IF failed = {} THEN rules
               ELSE SubSeq(rules, 1, (CHOOSE i \in failed : \A j \in failed : i <= j) - 1)
    IN ForEach(run, LAMBDA rule : validate(rule, g, reg))

\* The messages of all rules, in rule order; a rule that raises is caught
\* and logged and adds none.
AllMessages(rules, g, reg) ==
    ForEach(rules, LAMBDA rule : IF raises(rule, g, reg) THEN <<>> ELSE validate(rule, g, reg))

NoFindings == [errors |-> <<>>, warnings |-> <<>>, blocking_errors |-> <<>>]

validate_graph(rules, ovr, g, reg) == CategorizeAll(NoFindings, AllMessages(rules, g, reg), ovr)

has_blocking_errors(res) == Len(res.blocking_errors) > 0

(***************************************************************************)
(* The validation state machine: a graph built by the graph operations     *)
(* from resources of the types the rules look at, the registry as loaded   *)
(* at startup, and the two calls on the engine.                            *)
(***************************************************************************)
MaxOverrides == 1

WildcardPolicy ==
    Dict([Statement |-> List(<<Dict([Effect |-> Str("Allow"), Action |-> Str("*"), Resource |-> Str("*")])>>)])

\* type and arguments of the resources the validated graphs are built from
ValidatedKinds ==
    {[type |-> "aws_subnet", arguments |-> EmptyDict],
     [type |-> "aws_instance", arguments |-> EmptyDict],
     [type |-> "aws_iam_role",
      arguments |-> [assume_role_policy |-> WildcardPolicy,
                     managed_policy_arns |-> List(<<StrOf(<<"arn:aws:iam::aws:policy/", "AdministratorAccess">>)>>)]],
     [type |-> "aws_security_group",
      arguments |-> [ingress |-> List(<<Dict([from_port |-> PyInt(22), to_port |-> PyInt(22),
                                              cidr_blocks |-> List(<<Str("0.0.0.0/0")>>)])>>)]],
     [type |-> "aws_security_group",
      arguments |-> [ingress |-> List(<<Dict([from_port |-> Str("22"), to_port |-> Str("22"),
                                              cidr_blocks |-> List(<<Str("0.0.0.0/0")>>)])>>)]],
     [type |-> "aws_lambda_function",
      arguments |-> [vpc_config |-> Dict([subnet_ids |-> List(<<>>), security_group_ids |-> List(<<>>)])]],
     [type |-> "aws_lambda_function", arguments |-> [role |-> Str("app")]]}

\* The connection c1 from r1 to a target, or no connection.
ValidatedTargets == {None, "r1", "r2", "r3"}

\* The graph after add_domain(d1), add_resource(r1), add_resource(r2), then
\* optionally update_resource(r2, domain_id) and add_connection(c1).
BuildGraph(kind1, kind2, name2, moved, target) ==
    LET g1 == add_domain(EmptyGraph, [id |-> "d1", name |-> "net", type |-> DomainType("networking"),
                                      resource_ids |-> <<>>]).graph
        g2 == add_resource(g1, [id |-> "r1", type |-> kind1.type, domain_id |-> "d1", name |-> "app",
                                arguments |-> kind1.arguments]).graph
        g3 == add_resource(g2, [id |-> "r2", type |-> kind2.type, domain_id |-> "d1", name |-> name2,
                                arguments |-> kind2.arguments]).graph
        g4 == IF moved THEN update_resource(g3, "r2", "domain_id", "d2").graph ELSE g3
    IN IF target = None THEN g4
       ELSE add_connection(g4, [id |-> "c1", source_id |-> "r1", target_id |-> target,
                                source_type |-> NodeType("resource"), target_type |-> NodeType("resource"),
                                connection_type |-> ConnectionType("dependency"),
                                output_name |-> None, input_name |-> None]).graph

ValidatedGraphs ==
    {BuildGraph(k1, k2, n2, moved, target) :
        k1 \in ValidatedKinds, k2 \in ValidatedKinds, n2 \in {"app", "api"},
        moved \in BOOLEAN, target \in ValidatedTargets}

\* The registry after load_registry: one service with a required input.
LoadedRegistry ==
    <<[id |-> "aws_subnet", domain |-> DomainType("networking"), category |-> "core",
       required_inputs |-> <<"vpc_id">>, optional_inputs |-> <<>>, exports |-> <<"id">>,
       allowed_consumers |-> <<>>]>>

RuleIds ==
    {"graph-orphan-resource", "graph-circular-dependency", "graph-duplicate-name",
     "graph-required-inputs", "graph-reference-integrity",
     "security-iam-least-privilege", "security-admin-ports-open", "security-lambda-vpc-config",
     "aws-lambda-vpc", "aws-ec2-subnet", "aws-lambda-iam-role", "aws-iam-role-usage"}

ElementIds == Keys(domains) \cup Keys(resources) \cup Keys(connections)

\* The (element, rule) pairs registered in an overrides dict.
Registered(ovr) == UNION {{<<ovr[i].id, rule_id>> : rule_id \in Elems(ovr[i].rule_ids)} : i \in DOMAIN ovr}

InitV ==
    /\ \E g \in ValidatedGraphs :
          /\ domains = g.domains
          /\ resources = g.resources
          /\ connections = g.connections
    /\ ret = NoError
    /\ registry = LoadedRegistry
    /\ overrides = <<>>
    /\ results = <<>>
    /\ domain_index = <<>>
    /\ files = <<>>
    /\ config = <<>>
    /\ expansion = <<>> /\ terraform_project = <<>>

AddOverride ==
    \E element_id \in ElementIds, rule_id \in RuleIds :
        /\ Cardinality(Registered(overrides)) < MaxOverrides
        /\ overrides' = add_override(overrides, element_id, rule_id)
        /\ UNCHANGED <<domains, resources, connections, ret, registry, results, apart>>

\* A slip of validation: it repairs what it reports, dropping the connections
\* that ReferenceIntegrityRule has a finding on.
ValidateGraph_repairing ==
    /\ results' = <<validate_graph(DefaultRules, overrides, Graph, registry)>>
    /\ connections' = SelectSeq(connections, LAMBDA conn :
                          \A i \in DOMAIN ReferenceIntegrityRule(Graph) :
                              ReferenceIntegrityRule(Graph)[i].element_id # conn.id)
    /\ UNCHANGED <<domains, resources, ret, registry, overrides, apart>>

ValidateGraph ==
    /\ results' = <<validate_graph(DefaultRules, overrides, Graph, registry)>>
    /\ UNCHANGED <<domains, resources, connections, ret, registry, overrides, apart>>

NextV == AddOverride \/ ValidateGraph

SpecV == InitV /\ [][NextV]_vars

(***************************************************************************)
(* Claims about the validation engine.                                     *)
(***************************************************************************)
\* The findings of all rules on the current graph, before classification.
Messages == AllMessages(DefaultRules, Graph, registry)
\* The stored result is the one of a validate_graph call on the current
\* graph under the current overrides.
Validated == results # <<>> /\ results[1] = validate_graph(DefaultRules, overrides, Graph, registry)

TextsAt(dict, element_id) == IF element_id \in Keys(dict) THEN Get(dict, element_id).texts ELSE <<>>
InErrors(res, msg) == ErrorText(msg) \in Elems(TextsAt(res.errors, msg.element_id))
InWarnings(res, msg) == msg.message \in Elems(TextsAt(res.warnings, msg.element_id))
InBlocking(res, msg) == ErrorText(msg) \in Elems(TextsAt(res.blocking_errors, msg.element_id))
IsRegistered(msg) == <<msg.element_id, msg.rule_id>> \in Registered(overrides)

\* C7 (as claimed): after validate_graph, a finding is in blocking_errors
\* exactly when its tier is 0, 1 or 2 and no override is registered for its
\* (element id, rule id) pair.
C7_BlockingIffTierAndNoOverride ==
    Validated =>
        \A i \in DOMAIN Messages :
            InBlocking(results[1], Messages[i])
                <=> (Messages[i].tier \in {0, 1, 2} /\ ~IsRegistered(Messages[i]))

\* C7 (amended): after validate_graph, a finding is in blocking_errors exactly
\* when its severity is error, its tier is 0, 1 or 2, and it is not both
\* permitting override and registered as overridden for its (element id,
\* rule id) pair.
C7_BlockingIffErrorTierAndNotSuppressed ==
    Validated =>
        \A i \in DOMAIN Messages :
            InBlocking(results[1], Messages[i])
                <=> (/\ Messages[i].severity = "error"
                     /\ Messages[i].tier \in {0, 1, 2}
                     /\ ~(Messages[i].override_allowed /\ IsRegistered(Messages[i])))

C7_Witness ==
    /\ Validated
    /\ has_blocking_errors(results[1])
    /\ \E i \in DOMAIN Messages :
          Messages[i].tier = 2 /\ Messages[i].severity = "warning" /\ ~InBlocking(results[1], Messages[i])
    /\ \E i \in DOMAIN Messages :
          Messages[i].tier = 1 /\ IsRegistered(Messages[i]) /\ ~InBlocking(results[1], Messages[i])

\* Whether every finding of the rule on the current graph permits override.
PermitsOverride(rule_id) ==
    \A i \in DOMAIN Messages : Messages[i].rule_id = rule_id => Messages[i].override_allowed
\* The overrides without the pair (element_id, rule_id).
WithoutOverride(ovr, element_id, rule_id) ==
    [i \in DOMAIN ovr |->
        IF ovr[i].id = element_id
        THEN [ovr[i] EXCEPT !.rule_ids = SelectSeq(@, LAMBDA r : r # rule_id)]
        ELSE ovr[i]]

\* C8: after add_override(X, Y) for a rule Y whose findings permit override,
\* validate_graph reports no finding of Y on X in errors or blocking_errors,
\* and its whole result is the one of a run without that override on the
\* findings other than Y's on X.
C8_OverrideSuppressesOnlyItsFinding ==
    Validated =>
        \A pair \in Registered(overrides) :
            PermitsOverride(pair[2]) =>
                /\ \A i \in DOMAIN Messages :
                      (Messages[i].element_id = pair[1] /\ Messages[i].rule_id = pair[2])
                          => (~InErrors(results[1], Messages[i]) /\ ~InBlocking(results[1], Messages[i]))
                /\ results[1] =
                      CategorizeAll(NoFindings,
                          SelectSeq(Messages, LAMBDA m : ~(m.element_id = pair[1] /\ m.rule_id = pair[2])),
                          WithoutOverride(overrides, pair[1], pair[2]))

C8_Witness ==
    /\ Validated
    /\ \E pair \in Registered(overrides), i, j \in DOMAIN Messages :
          /\ PermitsOverride(pair[2])
          /\ Messages[i].element_id = pair[1] /\ Messages[i].rule_id = pair[2]
          /\ Messages[j].element_id # pair[1] /\ Messages[j].rule_id = pair[2]
          /\ InBlocking(results[1], Messages[j])
          /\ TextsAt(results[1].errors, pair[1]) # <<>>

\* C9: after an override is registered for (element id, rule id), no Tier-1
\* finding of that rule on that element is in blocking_errors.
C9_Tier1OverrideUnblocks ==
    Validated =>
        \A i \in DOMAIN Messages :
            (Messages[i].tier = TIER_1_SECURITY /\ IsRegistered(Messages[i]))
                => ~InBlocking(results[1], Messages[i])

\* How often a finding's text is listed under its element in each of the three maps.
Count(list, x) == Cardinality({i \in DOMAIN list : list[i] = x})
Reported(res, msg) ==
    <<Count(TextsAt(res.errors, msg.element_id), ErrorText(msg)),
      Count(TextsAt(res.warnings, msg.element_id), msg.message),
      Count(TextsAt(res.blocking_errors, msg.element_id), ErrorText(msg))>>

\* C10: a Tier-0 or Tier-2 finding whose (element id, rule id) pair has an
\* override registered is reported, and reported in errors, warnings and
\* blocking_errors exactly as by a run with no override at all.
C10_Tier0And2NeverSuppressed ==
    Validated =>
        \A i \in DOMAIN Messages :
            (Messages[i].tier \in {0, 2} /\ IsRegistered(Messages[i]))
                => /\ Reported(results[1], Messages[i])
                        = Reported(validate_graph(DefaultRules, <<>>, Graph, registry), Messages[i])
                   /\ IF Messages[i].severity = "error"
                      THEN InErrors(results[1], Messages[i]) /\ InBlocking(results[1], Messages[i])
                      ELSE InWarnings(results[1], Messages[i])

C10_Witness ==
    /\ Validated
    /\ \E i, j \in DOMAIN Messages :
          /\ Messages[i].tier = 0 /\ IsRegistered(Messages[i]) /\ InBlocking(results[1], Messages[i])
          /\ Messages[j].tier = 2 /\ Messages[j].element_id # Messages[i].element_id

\* The rules other than the given one, in registration order.
Unregistered(rule) == SelectSeq(DefaultRules, LAMBDA other : other # rule)
\* Whether some text of a result map starts with the given piece.
Mentions(dict, piece) ==
    \E i \in DOMAIN dict : \E j \in DOMAIN dict[i].texts : dict[i].texts[j][1] = piece

\* C11: when a registered rule raises during validate_graph, the result is
\* the one of a run in which that rule is not registered (so the rules after
\* it are run and the others' findings are all there), and none of the
\* failing rule's findings is in it.
C11_RaisingRuleContributesNothing ==
    Validated =>
        \A i \in DOMAIN DefaultRules :
            raises(DefaultRules[i], Graph, registry) =>
                /\ results[1] = validate_graph(Unregistered(DefaultRules[i]), overrides, Graph, registry)
                /\ DefaultRules[i] = "AdminPortsRule" =>
                      /\ ~Mentions(results[1].errors, "Security group")
                      /\ ~Mentions(results[1].blocking_errors, "Security group")

\* The rule raises on a security group, and a rule registered after it has
\* its finding on the other resource reported.
C11_Witness ==
    /\ Validated
    /\ raises("AdminPortsRule", Graph, registry)
    /\ \/ Mentions(results[1].errors, "EC2 instance")
       \/ Mentions(results[1].errors, "Lambda function")
    /\ overrides # <<>>

\* C12: a validate_graph or add_override call leaves the domains, resources
\* and connections collections, with every field of every entity and every
\* membership list, as they were before the call.
C12_ValidationLeavesGraphUnchanged ==
    [][(ValidateGraph \/ AddOverride) => GraphUnchanged]_vars

\* A graph with a connection (the cycle rule has an adjacency to build) has
\* been validated under a registered override.
C12_Witness ==
    /\ Validated
    /\ overrides # <<>>
    /\ connections # <<>> /\ resources # <<>> /\ domains # <<>>
    /\ ReferenceIntegrityRule(Graph) # <<>>

(***************************************************************************)
(* The rules on graphs shaped for them: a graph built by the graph         *)
(* operations is validated once, with no override registered.              *)
(***************************************************************************)
MaxEdges == 3

CycleNodes == {"r1", "r2", "r3"}

\* The graph after add_connection of c1, c2, ... along the given edges.
RECURSIVE Connected(_, _, _)
Connected(g, edges, i) ==
    IF i > Len(edges) THEN g
    ELSE Connected(add_connection(g, [id |-> "c" \o ToString(i),
                                      source_id |-> edges[i][1], target_id |-> edges[i][2],
                                      source_type |-> NodeType("resource"),
                                      target_type |-> NodeType("resource"),
                                      connection_type |-> ConnectionType("dependency"),
                                      output_name |-> None, input_name |-> None]).graph,
                   edges, i + 1)

\* The graph after add_domain(d1) and add_resource(r1) of the given type and arguments.
OneResource(type, arguments) ==
    add_resource(add_domain(EmptyGraph, [id |-> "d1", name |-> "net", type |-> DomainType("networking"),
                                         resource_ids |-> <<>>]).graph,
                 [id |-> "r1", type |-> type, domain_id |-> "d1", name |-> "app",
                  arguments |-> arguments]).graph

\* An attribute map from the values chosen for its keys, a key whose choice
\* is Absent being left out.
Absent == [t |-> "absent", v |-> <<>>]
Arguments(choice) == [key \in {k \in DOMAIN choice : choice[k].t # "absent"} |-> choice[key]]

\* The registry as loaded, with a service of two required inputs added.
RuleRegistry ==
    LoadedRegistry \o
    <<[id |-> "aws_autoscaling_group", domain |-> DomainType("compute"), category |-> "core",
       required_inputs |-> <<"min_size", "vpc_zone_identifier">>, optional_inputs |-> <<>>,
       exports |-> <<"id">>, allowed_consumers |-> <<>>]>>

\* The values tried for a number, a list and a string input.
NumberInputs == <<Absent, PyInt(0), PyInt(2)>>
ListInputs == <<Absent, PyNone, Str(""), List(<<>>), List(<<Str("subnet-1")>>)>>
StringInputs == <<Absent, PyNone, Str(""), Str("vpc-1")>>

PortValues == {0, 1, 22, 23, 3389, 3390, 65535}
CidrInputs == <<List(<<Str("0.0.0.0/0")>>), List(<<Str("10.0.0.0/8")>>),
                List(<<Str("10.0.0.0/8"), Str("0.0.0.0/0")>>)>>

\* The state holds the given graph.
Holds(g) ==
    /\ domains = g.domains
    /\ resources = g.resources
    /\ connections = g.connections

InitR ==
    /\ \/ \E edges \in UNION {[1..n -> CycleNodes \X CycleNodes] : n \in 0..MaxEdges} :
             Holds(Connected(EmptyGraph, edges, 1))
       \/ \E i \in DOMAIN NumberInputs, j \in DOMAIN ListInputs :
             Holds(OneResource("aws_autoscaling_group",
                               Arguments([min_size |-> NumberInputs[i],
                                          vpc_zone_identifier |-> ListInputs[j]])))
       \/ \E i \in DOMAIN StringInputs :
             \/ Holds(OneResource("aws_subnet", Arguments([vpc_id |-> StringInputs[i]])))
             \/ Holds(OneResource("aws_vpc", Arguments([cidr_block |-> StringInputs[i]])))
       \/ \E a \in PortValues, b \in PortValues, i \in DOMAIN CidrInputs :
             Holds(OneResource("aws_security_group",
                               [ingress |-> List(<<Dict([from_port |-> PyInt(a), to_port |-> PyInt(b),
                                                          cidr_blocks |-> CidrInputs[i]])>>)]))
    /\ ret = NoError
    /\ registry = RuleRegistry
    /\ overrides = <<>>
    /\ results = <<>>
    /\ domain_index = <<>>
    /\ files = <<>>
    /\ config = <<>>
    /\ expansion = <<>> /\ terraform_project = <<>>

SpecR == InitR /\ [][ValidateGraph]_vars

(***************************************************************************)
(* Claims about the rules.                                                 *)
(***************************************************************************)
\* The pairs a path of one or more source->target edges leads along.
RECURSIVE Paths(_, _)
Paths(edges, n) ==
    IF n = 0 THEN edges
    ELSE LET shorter == Paths(edges, n - 1)
         IN shorter \cup {<<pe[1][1], pe[2][2]>> : pe \in {qf \in shorter \X edges : qf[1][2] = qf[2][1]}}
EdgesOf(conns) == {<<conns[i].source_id, conns[i].target_id>> : i \in DOMAIN conns}
ContainsCycle(conns) == \E p \in Paths(EdgesOf(conns), Len(conns)) : p[1] = p[2]

\* C13: the circular-dependency rule has a finding exactly when the
\* source->target edges of the connections contain a cycle (a self-loop
\* included), never more than one, and the finding is Tier 0 and blocking.
C13_CycleReportedIffPresent ==
    Validated =>
        LET found == CircularDependencyRule(Graph)
        IN /\ found # <<>> <=> ContainsCycle(connections)
           /\ Len(found) <= 1
           /\ \A i \in DOMAIN found :
                 /\ found[i].tier = TIER_0_GRAPH_INTEGRITY
                 /\ InBlocking(results[1], found[i])
           /\ Cardinality({i \in DOMAIN Messages : Messages[i].rule_id = "graph-circular-dependency"})
                 = Len(found)

\* A cycle through three nodes entered from a node outside the first search.
C13_Witness ==
    /\ Validated
    /\ Len(connections) = 3
    /\ ContainsCycle(connections)
    /\ \A i \in DOMAIN connections : connections[i].source_id # connections[i].target_id
    /\ Cardinality(EdgesOf(connections)) = 3
    /\ Cardinality({connections[i].source_id : i \in DOMAIN connections}) = 3
    /\ Mentions(results[1].blocking_errors, "Circular dependency detected in infrastructure graph")

\* A value that is there but empty: None, the empty string, list or dict.
IsEmpty(x) ==
    \/ x.t = "none"
    \/ x.t \in {"str", "list"} /\ Len(x.v) = 0
    \/ x.t = "dict" /\ DOMAIN x.v = {}
Provided(resource, input) ==
    input \in DOMAIN resource.arguments /\ ~IsEmpty(resource.arguments[input])
\* Whether the map lists, under the resource, a required-input error for the input.
RequiredInputError(dict, resource, input) ==
    \E j \in DOMAIN TextsAt(dict, resource.id) :
        /\ TextsAt(dict, resource.id)[j][1] = "Missing required input"
        /\ TextsAt(dict, resource.id)[j][2] = input

\* C14: for a resource whose type has a registry entry, every required input
\* that is absent or empty has a Tier-0 error on the resource in errors and
\* blocking_errors, and when every required input has a non-empty value the
\* resource has no required-input error.
C14_RequiredInputsEnforced ==
    Validated =>
        \A i \in DOMAIN resources :
            get_service(registry, resources[i].type) # <<>> =>
                LET required == get_service(registry, resources[i].type)[1].required_inputs
                IN /\ \A k \in DOMAIN required :
                         ~Provided(resources[i], required[k]) =>
                             /\ RequiredInputError(results[1].errors, resources[i], required[k])
                             /\ RequiredInputError(results[1].blocking_errors, resources[i], required[k])
                             /\ \E m \in DOMAIN Messages :
                                   /\ Messages[m].rule_id = "graph-required-inputs"
                                   /\ Messages[m].element_id = resources[i].id
                                   /\ Messages[m].tier = TIER_0_GRAPH_INTEGRITY
                   /\ (\A k \in DOMAIN required : Provided(resources[i], required[k])) =>
                         \A k \in DOMAIN required :
                             ~RequiredInputError(results[1].errors, resources[i], required[k])

\* Whether an ingress rule exposes the admin port to the unrestricted CIDR.
Exposes(rule, admin_port) ==
    /\ isinstance(rule, "dict")
    /\ {"from_port", "to_port", "cidr_blocks"} \subseteq DOMAIN rule.v
    /\ isinstance(rule.v["from_port"], "int") /\ isinstance(rule.v["to_port"], "int")
    /\ rule.v["from_port"].n \in 0..65535 /\ rule.v["to_port"].n \in 0..65535
    /\ rule.v["from_port"].n <= admin_port /\ admin_port <= rule.v["to_port"].n
    /\ InList("0.0.0.0/0", rule.v["cidr_blocks"])

\* C16: a security group with an inbound rule whose port range, from_port
\* and to_port any integers of 0..65535, contains 22 or 3389 and whose
\* cidr_blocks contains 0.0.0.0/0 has a Tier-1 error reported on it.
C16_AdminPortsReported ==
    Validated =>
        \A i \in DOMAIN resources :
            (/\ resources[i].type = "aws_security_group"
             /\ "ingress" \in DOMAIN resources[i].arguments
             /\ \E j \in DOMAIN resources[i].arguments["ingress"].v :
                   Exposes(resources[i].arguments["ingress"].v[j], 22)
                       \/ Exposes(resources[i].arguments["ingress"].v[j], 3389))
                => \E m \in DOMAIN Messages :
                      /\ Messages[m].element_id = resources[i].id
                      /\ Messages[m].rule_id = "security-admin-ports-open"
                      /\ Messages[m].tier = TIER_1_SECURITY
                      /\ Messages[m].severity = "error"
                      /\ InErrors(results[1], Messages[m])

\* Two distinct domains of one name, or two distinct resources of one name
\* that belong to the same domain.
HasDuplicateNames(g) ==
    \/ \E i, j \in DOMAIN g.domains : i # j /\ g.domains[i].name = g.domains[j].name
    \/ \E i, j \in DOMAIN g.resources :
          /\ i # j
          /\ g.resources[i].domain_id = g.resources[j].domain_id
          /\ g.resources[i].name = g.resources[j].name

\* C15: validation has a duplicate-name finding exactly when two distinct
\* domains share a name or two distinct resources of the same domain share a
\* name; a graph with unique names gets none.
C15_DuplicateNameIffShared ==
    LET found == validate_graph(DefaultRules, overrides, Graph, registry).errors
    IN /\ DuplicateNameRule(Graph) # <<>> <=> HasDuplicateNames(Graph)
       /\ (Mentions(found, "Duplicate domain name:") \/ Mentions(found, "Duplicate resource name in domain"))
            <=> HasDuplicateNames(Graph)

(***************************************************************************)
(* DeploymentExpander.  A string assembled by an f-string or a join is the *)
(* sequence of its pieces.                                                 *)
(***************************************************************************)
DeploymentStrategyValues == {"single", "per-az", "multi-az", "regional"}
DeploymentStrategy(v) == IF v \in DeploymentStrategyValues THEN <<"DeploymentStrategy", v>> ELSE <<>>

DeploymentAlias(resource_id, resource_type, base_name, alias_type, alias_value, alias_index) ==
    [resource_id |-> resource_id, resource_type |-> resource_type, base_name |-> base_name,
     alias_type |-> alias_type, alias_value |-> alias_value, alias_index |-> alias_index]

DeploymentConfig(primary_region, availability_zones, replica_regions) ==
    [primary_region |-> primary_region, availability_zones |-> availability_zones,
     replica_regions |-> replica_regions]

\* ','.join(items)
RECURSIVE Join(_, _)
Join(sep, items) ==
    IF Len(items) = 0 THEN <<>>
    ELSE IF Len(items) = 1 THEN <<items[1]>>
    ELSE <<items[1], sep>> \o Join(sep, Tail(items))

\* The outcome of an expander call: what it returns and the exception raised, if any.
Returned(result) == [result |-> result, error |-> NoError]
Failed(kind, what) == [result |-> <<>>, error |-> <<kind, what>>]

\* A slip of the regional branch: the replica regions are listed before the
\* primary region.
expand_resource_replicas_first(cfg, resource_id, resource_type, base_name, strategy, arguments) ==
    IF strategy = DeploymentStrategy("regional") /\ Truthy(cfg.replica_regions)
    THEN LET regions == [i \in DOMAIN cfg.replica_regions.v |-> cfg.replica_regions.v[i].region]
                            \o <<cfg.primary_region>>
         IN Returned([i \in DOMAIN regions |->
                DeploymentAlias(<<resource_id, "_", ToString(i - 1)>>, resource_type, base_name,
                                "region", <<regions[i]>>, i - 1)])
    ELSE Returned(<<DeploymentAlias(<<resource_id>>, resource_type, base_name, "none", <<>>, 0)>>)

expand_resource(cfg, resource_id, resource_type, base_name, strategy, arguments) ==
    IF strategy = DeploymentStrategy("single")
    THEN Returned(<<DeploymentAlias(<<resource_id>>, resource_type, base_name, "none", <<>>, 0)>>)
    ELSE IF strategy = DeploymentStrategy("per-az")
    THEN Returned([i \in DOMAIN cfg.availability_zones |->
             DeploymentAlias(<<resource_id, "_", ToString(i - 1)>>, resource_type, base_name,
                             "az", <<cfg.availability_zones[i]>>, i - 1)])
    ELSE IF strategy = DeploymentStrategy("multi-az")
    THEN Returned(<<DeploymentAlias(<<resource_id>>, resource_type, base_name, "multi-az",
                                    Join(",", cfg.availability_zones), 0)>>)
    ELSE IF strategy = DeploymentStrategy("regional")
    THEN \* `if self.config.replica_regions`: None and the empty list add nothing;
         \* r['region'] raises KeyError on an entry without the key.
         IF Truthy(cfg.replica_regions)
               /\ \E i \in DOMAIN cfg.replica_regions.v : "region" \notin DOMAIN cfg.replica_regions.v[i]
         THEN Failed("KeyError", "region")
         ELSE LET replicas == IF ~Truthy(cfg.replica_regions) THEN <<>>
                              ELSE [i \in DOMAIN cfg.replica_regions.v |-> cfg.replica_regions.v[i].region]
                  regions == <<cfg.primary_region>> \o replicas
              IN Returned([i \in DOMAIN regions |->
                     DeploymentAlias(<<resource_id, "_", ToString(i - 1)>>, resource_type, base_name,
                                     "region", <<regions[i]>>, i - 1)])
    ELSE Failed("ValueError", "Unknown deployment strategy")

\* The decimal text of an octet: its number and the leading zeros written
\* before it.  int() reads the number, str() writes it without zeros.
Text(zeros, n) == [zeros |-> zeros, n |-> n]
int(text) == text.n
str(n) == Text(0, n)

\* An address block "a.b.c.d/p": split('/')[0].split('.') gives the octet
\* texts, and '.'.join(octets) + "/24" puts a block together again.
Cidr(octets, prefix) == [octets |-> octets, prefix |-> prefix]

generate_cidr_calculations(cfg, vpc_cidr, resource_name) ==
    LET octets == vpc_cidr.octets
        Allocate[i \in 0..Len(cfg.availability_zones)] ==
            IF i = 0 THEN <<>>
            ELSE Set(Allocate[i - 1],
                     [id |-> cfg.availability_zones[i],
                      block |-> Cidr([octets EXCEPT ![3] = str(int(octets[3]) + (i - 1))], 24)])
    IN \* octets[2] raises IndexError when the address has fewer than three octets
       IF Len(cfg.availability_zones) > 0 /\ Len(octets) < 3
       THEN Failed("IndexError", "list index out of range")
       ELSE Returned(Allocate[Len(cfg.availability_zones)])

(***************************************************************************)
(* The expander's state machine: an expander constructed on a              *)
(* configuration, and the two calls on it.                                 *)
(***************************************************************************)
MaxZones == 3

ZoneNames == {"us-east-1a", "us-east-1b", "us-east-1c", "us-west-1a"}
ZoneLists == UNION {[1..n -> ZoneNames] : n \in 0..MaxZones}
\* replica_regions: None, or a list of dicts, the last one without the key.
ReplicaInputs ==
    <<PyNone, List(<<>>), List(<<[region |-> "eu-west-1"]>>),
      List(<<[region |-> "eu-west-1"], [region |-> "ap-south-1"]>>),
      List(<<[region |-> "ap-south-1"], [name |-> "eu-west-1"]>>)>>
StrategyInputs ==
    {DeploymentStrategy(v) : v \in DeploymentStrategyValues} \cup {<<"DeploymentStrategy", "global">>}
\* Base networks: third octets at both ends of the range, one written with a
\* leading zero, and an address cut short.
CidrInputs3 == {Text(0, 0), Text(1, 1), Text(0, 254), Text(0, 255)}
VpcCidrs ==
    {Cidr(<<Text(0, 10), Text(0, 0), third, Text(0, 0)>>, prefix) :
        third \in CidrInputs3, prefix \in {16, 24}}
    \cup {Cidr(<<Text(0, 10), Text(0, 0)>>, 16)}

InitD ==
    /\ \E zones \in ZoneLists, i \in DOMAIN ReplicaInputs :
          config = DeploymentConfig("us-east-1", zones, ReplicaInputs[i])
    /\ expansion = <<>> /\ terraform_project = <<>>
    /\ domains = <<>> /\ resources = <<>> /\ connections = <<>>
    /\ ret = NoError
    /\ registry = <<>> /\ overrides = <<>> /\ results = <<>>
    /\ domain_index = <<>> /\ files = <<>>

ExpandResource ==
    \E strategy \in StrategyInputs :
        /\ expansion' = <<[call |-> "expand_resource", strategy |-> strategy,
                           out |-> expand_resource(config, "r1", "aws_subnet", "main", strategy, EmptyDict)]>>
        /\ UNCHANGED <<domains, resources, connections, ret, registry, overrides, results,
                       domain_index, files, config, terraform_project>>

GenerateCidrCalculations ==
    \E vpc_cidr \in VpcCidrs :
        /\ expansion' = <<[call |-> "generate_cidr_calculations", vpc_cidr |-> vpc_cidr,
                           out |-> generate_cidr_calculations(config, vpc_cidr, "main")]>>
        /\ UNCHANGED <<domains, resources, connections, ret, registry, overrides, results,
                       domain_index, files, config, terraform_project>>

NextD == ExpandResource \/ GenerateCidrCalculations

SpecD == InitD /\ [][NextD]_vars

(***************************************************************************)
(* Claims about the expander.                                              *)
(***************************************************************************)
Expanded(strategy) ==
    /\ expansion # <<>>
    /\ expansion[1].call = "expand_resource"
    /\ expansion[1].strategy = DeploymentStrategy(strategy)
    /\ expansion[1].out.error = NoError
\* The configured replica regions, when every entry names one.
ReplicaRegions ==
    IF Truthy(config.replica_regions)
    THEN [i \in DOMAIN config.replica_regions.v |-> config.replica_regions.v[i].region]
    ELSE <<>>

\* C17: expand_resource returns one alias per location, in order: for single
\* one alias with no location and index 0; for multi-az one alias with index
\* 0; for per-az alias i with zone i of the zone list and index i; for
\* regional alias 0 with the primary region and alias i with replica region
\* i-1, with index i.
C17_OneAliasPerLocation ==
    LET aliases == expansion[1].out.result
    IN /\ Expanded("single") =>
             /\ Len(aliases) = 1
             /\ aliases[1].alias_type = "none" /\ aliases[1].alias_value = <<>>
             /\ aliases[1].alias_index = 0
       /\ Expanded("multi-az") => Len(aliases) = 1 /\ aliases[1].alias_index = 0
       /\ Expanded("per-az") =>
             /\ Len(aliases) = Len(config.availability_zones)
             /\ \A i \in DOMAIN aliases :
                   /\ aliases[i].alias_value = <<config.availability_zones[i]>>
                   /\ aliases[i].alias_index = i - 1
       /\ Expanded("regional") =>
             /\ Len(aliases) = 1 + Len(ReplicaRegions)
             /\ aliases[1].alias_value = <<config.primary_region>>
             /\ \A i \in DOMAIN aliases :
                   /\ i > 1 => aliases[i].alias_value = <<ReplicaRegions[i - 1]>>
                   /\ aliases[i].alias_index = i - 1

\* A regional expansion over two replica regions.
C17_Witness ==
    /\ Expanded("regional")
    /\ Len(expansion[1].out.result) = 3
    /\ Len(config.availability_zones) = 2

\* An octet text that writes a number of one byte.
IsOctet(text) == text.n \in 0..255

PiecesOf(resource_type) ==
    CASE resource_type = "aws_subnet" -> {"subnet"}
      [] resource_type = "aws_vpc" -> {"vpc"}
      [] resource_type = "aws_internet_gateway" -> {"gateway"}
      [] resource_type = "aws_db_subnet_group" -> {"db", "subnet"}
      [] resource_type = "aws_instance" -> {"instance"}
      [] resource_type = "aws_db_instance" -> {"db", "instance"}
      [] resource_type = "aws_iam_instance_profile" -> {"iam", "instance"}
      [] resource_type = "aws_lambda_function" -> {"lambda"}
      [] resource_type = "aws_dynamodb_table" -> {"db", "dynamodb"}
      [] resource_type = "aws_s3_bucket" -> {"s3"}
      [] resource_type = "aws_sqs_queue" -> {"sqs"}
      [] resource_type = "aws_sns_topic" -> {"sns"}
      [] resource_type = "aws_iam_role" -> {"iam"}
      [] resource_type = "aws_cloudwatch_log_group" -> {"cloudwatch"}
      [] resource_type = "aws_lb" -> {"lb"}
      [] resource_type = "aws_alb" -> {"lb", "alb"}
      [] OTHER -> {}

\* A slip of the fallback chain: the instance/asg test is made last, after
\* the tests that name a domain of their own.
assign_domain_instance_last(reg, resource_type) ==
    LET Has(piece) == piece \in PiecesOf(resource_type)
    IN IF get_service(reg, resource_type) # <<>> THEN get_service(reg, resource_type)[1].domain
       ELSE IF Has("vpc") \/ Has("subnet") \/ Has("gateway") THEN DomainType("networking")
       ELSE IF Has("lambda") THEN DomainType("serverless")
       ELSE IF Has("db") \/ Has("dynamodb") THEN DomainType("data")
       ELSE IF Has("s3") THEN DomainType("storage")
       ELSE IF Has("sqs") \/ Has("sns") THEN DomainType("messaging")
       ELSE IF Has("iam") THEN DomainType("identity")
       ELSE IF Has("cloudwatch") THEN DomainType("observability")
       ELSE IF Has("lb") \/ Has("alb") THEN DomainType("edge")
       ELSE DomainType("compute")

assign_domain(reg, resource_type) ==
    LET Has(piece) == piece \in PiecesOf(resource_type)
    IN IF get_service(reg, resource_type) # <<>> THEN get_service(reg, resource_type)[1].domain
       ELSE IF Has("vpc") \/ Has("subnet") \/ Has("gateway") THEN DomainType("networking")
       ELSE IF Has("instance") \/ Has("asg") THEN DomainType("compute")
       ELSE IF Has("lambda") THEN DomainType("serverless")
       ELSE IF Has("db") \/ Has("dynamodb") THEN DomainType("data")
       ELSE IF Has("s3") THEN DomainType("storage")
       ELSE IF Has("sqs") \/ Has("sns") THEN DomainType("messaging")
       ELSE IF Has("iam") THEN DomainType("identity")
       ELSE IF Has("cloudwatch") THEN DomainType("observability")
       ELSE IF Has("lb") \/ Has("alb") THEN DomainType("edge")
       ELSE DomainType("compute")

\* resource_id = f"{resource_type}.{resource_name}"
ResourceIdOf(block) == block.type \o "." \o block.name

extract_resources(blocks) ==
    [i \in DOMAIN blocks |->
        [id |-> ResourceIdOf(blocks[i]), type |-> blocks[i].type, domain_id |-> "",
         name |-> blocks[i].name, arguments |-> EmptyDict]]

\* The body of the loop over a file's resources: the domain is created on
\* first use, then the resource is added; an exception ends the file.
RECURSIVE AddExtracted(_, _, _)
AddExtracted(g, extracted, reg) ==
    IF extracted = <<>> THEN Ok(g)
    ELSE LET domain_type == assign_domain(reg, Head(extracted).type)
             domain_id == "domain_" \o value(domain_type)
             with_domain ==
                 IF domain_id \in Keys(g.domains) THEN Ok(g)
                 ELSE add_domain(g, [id |-> domain_id, name |-> value(domain_type),
                                     type |-> domain_type, resource_ids |-> <<>>])
             added == add_resource(with_domain.graph, [Head(extracted) EXCEPT !.domain_id = domain_id])
         IN IF added.error # NoError THEN added
            ELSE AddExtracted(added.graph, Tail(extracted), reg)

\* One turn of the loop over the files: the graph after it, and whether the
\* except clause logged a failure for the file.
ParseFile(g, file, reg) ==
    IF ~file.parses THEN [graph |-> g, error |-> <<"hcl2", "parse error">>]
    ELSE AddExtracted(g, extract_resources(file.blocks), reg)

\* parse_project from the graph built so far: the graph returned, and the
\* names of the files whose failure was logged.
RECURSIVE parse_project(_, _, _)
parse_project(g, project, reg) ==
    IF project = <<>> THEN [graph |-> g, failed |-> {}]
    ELSE LET out == ParseFile(g, Head(project), reg)
             rest == parse_project(out.graph, Tail(project), reg)
         IN [graph |-> rest.graph,
             failed |-> rest.failed \cup (IF out.error # NoError THEN {Head(project).id} ELSE {})]

MaxFiles == 2
MaxBlocks == 2

BlockInputs == [type : {"aws_subnet", "aws_instance"}, name : {"main"}]
                  \cup [type : {"aws_db_instance"}, name : {"main"}]
FileContents ==
    {[parses |-> FALSE, blocks |-> <<>>]}
    \cup {[parses |-> TRUE, blocks |-> blocks] :
             blocks \in UNION {[1..n -> BlockInputs] : n \in 0..MaxBlocks}}
FileNames == {"f" \o ToString(i) \o ".tf" : i \in 1..MaxFiles}
\* files: filename -> content, in the order of the dict.
FileInputs ==
    {project \in UNION {[1..n -> [id : FileNames, parses : BOOLEAN,
                                   blocks : {c.blocks : c \in FileContents}]] : n \in 0..MaxFiles} :
        /\ \A i, j \in DOMAIN project : i # j => project[i].id # project[j].id
        /\ \A i \in DOMAIN project : ~project[i].parses => project[i].blocks = <<>>}

\* The registry the parser looks types up in: as loaded, or with the
\* database instance registered as well.
ParserRegistries ==
    {LoadedRegistry,
     LoadedRegistry \o
     <<[id |-> "aws_db_instance", domain |-> DomainType("data"), category |-> "core",
        required_inputs |-> <<>>, optional_inputs |-> <<>>, exports |-> <<"endpoint">>,
        allowed_consumers |-> <<>>]>>}

InitP ==
    /\ files \in FileInputs
    /\ domains = <<>> /\ resources = <<>> /\ connections = <<>>
    /\ ret = NoError
    /\ registry \in ParserRegistries
    /\ overrides = <<>> /\ results = <<>>
    /\ domain_index = <<>> /\ config = <<>> /\ expansion = <<>> /\ terraform_project = <<>>

ParseProject ==
    LET out == parse_project(EmptyGraph, files, registry)
    IN /\ domains' = out.graph.domains
       /\ resources' = out.graph.resources
       /\ connections' = out.graph.connections
       /\ UNCHANGED <<ret, registry, overrides, results, domain_index, files, config, expansion, terraform_project>>

SpecP == InitP /\ [][ParseProject]_vars

(***************************************************************************)
(* Claims about the parser.                                                *)
(***************************************************************************)
ResourcesOf(file) == {ResourceIdOf(file.blocks[i]) : i \in DOMAIN file.blocks}

\* C19: of a file whose processing fails, no resource is in the returned
\* graph (unless a file that did not fail defines it too), and every
\* resource of every file that did not fail is, whatever the order of the
\* files.
C19_FailedFileContributesNothing ==
    LET out == parse_project(EmptyGraph, files, registry)
        elsewhere(i) == UNION {ResourcesOf(files[j]) :
                                 j \in {k \in DOMAIN files : k # i /\ files[k].id \notin out.failed}}
    IN Graph = out.graph =>
       \A i \in DOMAIN files :
          IF files[i].id \in out.failed
          THEN (ResourcesOf(files[i]) \ elsewhere(i)) \cap Keys(out.graph.resources) = {}
          ELSE ResourcesOf(files[i]) \subseteq Keys(out.graph.resources)

(***************************************************************************)
(* ServiceRegistry.load_registry and the structure validator.  The         *)
(* registry document is a value as yaml.safe_load returns it; the items of *)
(* a service entry are kept in the order written.                          *)
(***************************************************************************)
\* One item of a service entry: the resource type and its definition.
Item(resource_type, svc_def) == [id |-> resource_type, def |-> svc_def]

\* validate_service_definition
validate_service_definition(resource_type, service) ==
    LET list_fields == <<"required_inputs", "optional_inputs", "exports", "allowed_consumers">>
    IN When("domain" \notin DOMAIN service.v, <<resource_type, "missing field", "domain">>)
       \o When("domain" \in DOMAIN service.v
                   /\ ~(isinstance(service.v["domain"], "str")
                         /\ \E d \in DomainTypeValues : service.v["domain"] = Str(d)),
               <<resource_type, "invalid domain", "domain">>)
       \o ForEach(list_fields, LAMBDA field :
               When(field \in DOMAIN service.v /\ ~isinstance(service.v[field], "list"),
                    <<resource_type, "must be a list", field>>))

\* validate_registry_structure: the list of errors.
validate_registry_structure(registry_data) ==
    IF ~isinstance(registry_data, "dict")
    THEN <<<<"Registry", "must be a dictionary", "">>>>
    ELSE IF "services" \notin DOMAIN registry_data.v
    THEN <<<<"Registry", "must contain key", "services">>>>
    ELSE IF ~isinstance(registry_data.v["services"], "list")
    THEN <<<<"Registry", "must be a list", "services">>>>
    ELSE ForEach(registry_data.v["services"].v, LAMBDA service :
            IF ~isinstance(service, "dict") THEN <<<<"Service", "must be a dictionary", "">>>>
            ELSE ForEach(service.v, LAMBDA item : validate_service_definition(item.id, item.def)))

\* The strings of a list of str.
Strings(list) == [i \in DOMAIN list.v |-> list.v[i].v[1]]

\* ServiceDefinition(...) from one item of the document.
ServiceDefinition(item) ==
    LET svc_def == item.def.v
    IN [id |-> item.id,
        domain |-> DomainType(svc_def["domain"].v[1]),
        category |-> IF "category" \in DOMAIN svc_def THEN svc_def["category"].v[1] ELSE "core",
        required_inputs |-> Strings(DictGet(svc_def, "required_inputs", List(<<>>))),
        optional_inputs |-> Strings(DictGet(svc_def, "optional_inputs", List(<<>>))),
        exports |-> Strings(DictGet(svc_def, "exports", List(<<>>))),
        allowed_consumers |-> Strings(DictGet(svc_def, "allowed_consumers", List(<<>>)))]

\* The body of the load loop for one item: the service is stored under its
\* resource type and the type appended to the index of its domain.
Store(reg, item) ==
    LET service == ServiceDefinition(item)
        indexed == IF service.domain \in Keys(reg.domains)
                   THEN Get(reg.domains, service.domain).types ELSE <<>>
    IN [services |-> Set(reg.services, service),
        domains |-> Set(reg.domains, [id |-> service.domain, types |-> Append(indexed, item.id)])]

RECURSIVE StoreAll(_, _)
StoreAll(reg, items) ==
    IF items = <<>> THEN reg ELSE StoreAll(Store(reg, Head(items)), Tail(items))

\* The items of all service entries, in document order.
ItemsOf(registry_data) == ForEach(registry_data.v["services"].v, LAMBDA service : service.v)

\* A slip of the loader: each entry is checked as it is loaded, so the
\* entries before the first invalid one are stored.
load_registry_entrywise(reg, registry_data) ==
    LET errors == validate_registry_structure(registry_data)
        listed == IF isinstance(registry_data, "dict") /\ "services" \in DOMAIN registry_data.v
                     /\ isinstance(registry_data.v["services"], "list")
                  THEN registry_data.v["services"].v ELSE <<>>
        Valid(service) ==
            /\ isinstance(service, "dict")
            /\ ForEach(service.v, LAMBDA item : validate_service_definition(item.id, item.def)) = <<>>
        good == {n \in 0..Len(listed) : \A i \in 1..n : Valid(listed[i])}
        last == CHOOSE n \in good : \A k \in good : k <= n
    IN [services |-> StoreAll(reg, ForEach(SubSeq(listed, 1, last), LAMBDA service : service.v)).services,
        domains |-> StoreAll(reg, ForEach(SubSeq(listed, 1, last), LAMBDA service : service.v)).domains,
        error |-> IF errors # <<>>
                  THEN <<"ValueError", "Registry", errors[1][1], "Invalid registry structure">>
                  ELSE NoError]

\* load_registry on a document read from the file: the registry after the
\* call and the exception raised, if any.
load_registry(reg, registry_data) ==
    LET errors == validate_registry_structure(registry_data)
    IN IF errors # <<>>
       THEN [services |-> reg.services, domains |-> reg.domains,
             error |-> <<"ValueError", "Registry", errors[1][1], "Invalid registry structure">>]
       ELSE [services |-> StoreAll(reg, ItemsOf(registry_data)).services,
             domains |-> StoreAll(reg, ItemsOf(registry_data)).domains,
             error |-> NoError]

(***************************************************************************)
(* The registry's state machine: documents are loaded one after another    *)
(* into the singleton.                                                     *)
(***************************************************************************)
\* Longest per-domain index list the registry is let grow to (every load
\* appends to it).
MaxIndexed == 3

Entry(items) == [t |-> "dict", v |-> items]
Document(entries) == Dict([services |-> List(entries)])
SubnetEntry ==
    Entry(<<Item("aws_subnet", Dict([domain |-> Str("networking"),
                                     required_inputs |-> List(<<Str("vpc_id")>>)]))>>)
InstanceEntry == Entry(<<Item("aws_instance", Dict([domain |-> Str("compute")]))>>)

\* The documents loaded: four well-formed ones, then the malformed ones.
RegistryDocuments ==
    <<Document(<<SubnetEntry>>),
      Document(<<InstanceEntry>>),
      Document(<<SubnetEntry, InstanceEntry>>),
      Document(<<Entry(<<Item("aws_subnet", Dict([domain |-> Str("compute"),
                                                  required_inputs |-> List(<<Str("cidr_block")>>),
                                                  category |-> Str("extra")]))>>)>>),
      Dict([services |-> Str("aws_subnet")]),
      Document(<<InstanceEntry, Entry(<<Item("aws_vpc", Dict([category |-> Str("core")]))>>)>>),
      Document(<<SubnetEntry, Entry(<<Item("aws_vpc", Dict([domain |-> Str("network")]))>>)>>),
      Document(<<InstanceEntry, Entry(<<Item("aws_vpc", Dict([domain |-> Str("networking"),
                                                              exports |-> Str("id")]))>>)>>),
      Dict([version |-> Str("1")]),
      List(<<>>),
      Document(<<SubnetEntry, Str("aws_vpc")>>)>>

Registry == [services |-> registry, domains |-> domain_index]

LoadRegistry ==
    \E i \in DOMAIN RegistryDocuments :
        LET out == load_registry(Registry, RegistryDocuments[i])
        IN /\ \A k \in DOMAIN out.domains : Len(out.domains[k].types) <= MaxIndexed
           /\ registry' = out.services
           /\ domain_index' = out.domains
           /\ ret' = Raised("load_registry", out.error)
           /\ UNCHANGED <<domains, resources, connections, overrides, results, files, config, expansion,
                         terraform_project>>

SpecL == Init /\ [][LoadRegistry]_vars

(***************************************************************************)
(* Claims about the registry.                                              *)
(***************************************************************************)
\* One of the structural errors: services is no list, or some entry's
\* definition has no domain, a domain outside the nine values, or one of the
\* four list fields that is no list.
StructuralError(registry_data) ==
    /\ isinstance(registry_data, "dict")
    /\ "services" \in DOMAIN registry_data.v
    /\ \/ ~isinstance(registry_data.v["services"], "list")
       \/ \E i \in DOMAIN registry_data.v["services"].v :
             LET service == registry_data.v["services"].v[i]
             IN /\ isinstance(service, "dict")
                /\ \E j \in DOMAIN service.v :
                      LET fields == service.v[j].def.v
                      IN \/ "domain" \notin DOMAIN fields
                         \/ fields["domain"].v \notin {<<d>> : d \in DomainTypeValues}
                         \/ \E field \in {"required_inputs", "optional_inputs", "exports",
                                            "allowed_consumers"} \cap DOMAIN fields :
                               fields[field].t # "list"

\* C20: load_registry on a document with a structural error raises and
\* leaves the services and the per-domain index as they were.
C20_LoadAllOrNothing ==
    \A i \in DOMAIN RegistryDocuments :
        StructuralError(RegistryDocuments[i]) =>
            LET out == load_registry(Registry, RegistryDocuments[i])
            IN /\ out.error # NoError
               /\ out.services = registry
               /\ out.domains = domain_index

\* A malformed document whose first entry is well-formed was refused by a
\* registry that had services loaded.
C20_Witness ==
    /\ RaisedBy("load_registry")
    /\ ret[4] = "aws_vpc"
    /\ registry # <<>> /\ domain_index # <<>>

(***************************************************************************)
(* Claims about deletion and the connections.                              *)
(***************************************************************************)
\* Every connection of the graph has a source and a target that name an
\* existing entity of the declared kind.
EndpointsResolve(g) ==
    \A i \in DOMAIN g.connections :
        /\ Resolves(g, g.connections[i].source_id, g.connections[i].source_type)
        /\ Resolves(g, g.connections[i].target_id, g.connections[i].target_type)

\* C21: a delete_resource or delete_domain call made on a graph whose
\* connections all resolve leaves a graph whose connections all resolve.
C21_DeleteLeavesNoDanglingConnection ==
    [][((DeleteResource \/ DeleteDomain) /\ EndpointsResolve(Graph)) => EndpointsResolve(Graph)']_vars

\* A node from which a path of source->target edges leads back to itself.
OnCycle(conns, node) == <<node, node>> \in Paths(EdgesOf(conns), Len(conns))

\* C22: the element id of every finding of the circular-dependency rule is
\* a node that lies on a directed cycle of the connections.
C22_FindingNamesNodeOnCycle ==
    Validated =>
        \A i \in DOMAIN Messages :
            Messages[i].rule_id = "graph-circular-dependency"
                => OnCycle(connections, Messages[i].element_id)

(***************************************************************************)
(* The legacy serialization: to_dict and from_dict of the graph and of its *)
(* entities.                                                               *)
(***************************************************************************)
\* Domain.to_dict / Domain.from_dict: the type travels as its value, the
\* resource_ids list travels as it is.
DomainToDict(domain) == [domain EXCEPT !.type = value(domain.type)]
DomainFromDict(data) == [data EXCEPT !.type = DomainType(data.type)]
ConnectionToDict(conn) ==
    [conn EXCEPT !.source_type = value(conn.source_type),
                 !.target_type = value(conn.target_type),
                 !.connection_type = value(conn.connection_type)]
ConnectionFromDict(data) ==
    [data EXCEPT !.source_type = NodeType(data.source_type),
                 !.target_type = NodeType(data.target_type),
                 !.connection_type = ConnectionType(data.connection_type)]

to_dict(g) ==
    [domains |-> [i \in DOMAIN g.domains |-> DomainToDict(g.domains[i])],
     resources |-> g.resources,
     connections |-> [i \in DOMAIN g.connections |-> ConnectionToDict(g.connections[i])]]

RECURSIVE LoadEach(_, _, _)
\* A loop of from_dict over one list of the dictionary; an exception ends it.
LoadEach(out, kind, items) ==
    IF out.error # NoError \/ items = <<>> THEN out
    ELSE LET data == Head(items)
             next == CASE kind = "domains" ->
                            IF DomainType(data.type) = <<>>
                            THEN ValueError(out.graph, "DomainType", data.type, "is not a valid DomainType")
                            ELSE add_domain(out.graph, DomainFromDict(data))
                       [] kind = "resources" -> add_resource(out.graph, data)
                       [] kind = "connections" ->
                            IF \/ NodeType(data.source_type) = <<>>
                               \/ NodeType(data.target_type) = <<>>
                               \/ ConnectionType(data.connection_type) = <<>>
                            THEN ValueError(out.graph, "Connection", data.id, "is not a valid enum value")
                            ELSE add_connection(out.graph, ConnectionFromDict(data))
         IN LoadEach(next, kind, Tail(items))

from_dict(data) ==
    LoadEach(LoadEach(LoadEach(Ok(EmptyGraph), "domains", data.domains),
                      "resources", data.resources),
             "connections", data.connections)

\* Each id of a membership list is listed once.
ListedOnce(g) ==
    \A i \in DOMAIN g.domains :
        \A id \in Elems(g.domains[i].resource_ids) : Count(g.domains[i].resource_ids, id) = 1

\* C27: for every reachable graph G whose membership lists match the
\* resources' domain_id, from_dict(to_dict(G)) succeeds and gives every
\* domain a resource_ids list with the ids it has in G, each listed once.
C27_LegacyRoundTripKeepsMembership ==
    (C1_MembershipMatchesDomainId /\ ListedOnce(Graph)) =>
        LET out == from_dict(to_dict(Graph))
        IN /\ out.error = NoError
           /\ Keys(out.graph.domains) = Keys(domains)
           /\ ListedOnce(out.graph)
           /\ \A id \in Keys(domains) :
                 Elems(Get(out.graph.domains, id).resource_ids) = Elems(Get(domains, id).resource_ids)

(***************************************************************************)
(* Claims about the parser's classification.                               *)
(***************************************************************************)
ResourceTypes ==
    {"aws_subnet", "aws_vpc", "aws_internet_gateway", "aws_db_subnet_group", "aws_instance",
     "aws_db_instance", "aws_iam_instance_profile", "aws_lambda_function", "aws_dynamodb_table",
     "aws_s3_bucket", "aws_sqs_queue", "aws_sns_topic", "aws_iam_role", "aws_cloudwatch_log_group",
     "aws_lb", "aws_alb", "aws_eip"}

IsRegisteredType(resource_type) == \E i \in DOMAIN registry : registry[i].id = resource_type
RegisteredDomain(resource_type) ==
    registry[CHOOSE i \in DOMAIN registry : registry[i].id = resource_type].domain

\* The first rule of a list of <<keywords, domain>> rules that has a keyword
\* in the type, or compute when none has.
RECURSIVE FirstMatch(_, _)
FirstMatch(rules, resource_type) ==
    IF rules = <<>> THEN "compute"
    ELSE IF Head(rules)[1] \cap PiecesOf(resource_type) # {} THEN Head(rules)[2]
    ELSE FirstMatch(Tail(rules), resource_type)

\* C25 (as claimed): for a type with no registry entry assign_domain returns
\* the domain of the first matching rule of vpc/subnet -> networking,
\* lambda -> serverless, db/dynamodb -> data, s3 -> storage, sqs/sns ->
\* messaging, iam -> identity, cloudwatch -> observability, lb -> edge,
\* otherwise compute; for a registered type, the registry's domain.
C25_FallbackOrderAsClaimed ==
    \A resource_type \in ResourceTypes :
        assign_domain(registry, resource_type) =
            IF IsRegisteredType(resource_type) THEN RegisteredDomain(resource_type)
            ELSE DomainType(FirstMatch(<<
                    <<{"vpc", "subnet"}, "networking">>, <<{"lambda"}, "serverless">>,
                    <<{"db", "dynamodb"}, "data">>, <<{"s3"}, "storage">>,
                    <<{"sqs", "sns"}, "messaging">>, <<{"iam"}, "identity">>,
                    <<{"cloudwatch"}, "observability">>, <<{"lb"}, "edge">>>>, resource_type))

\* C25 (amended): the chain has two more keywords and one more rule, in
\* second place: vpc/subnet/gateway -> networking, instance/asg -> compute,
\* lambda -> serverless, db/dynamodb -> data, s3 -> storage, sqs/sns ->
\* messaging, iam -> identity, cloudwatch -> observability, lb/alb -> edge,
\* otherwise compute; for a registered type, the registry's domain.
C25_FallbackOrder ==
    \A resource_type \in ResourceTypes :
        assign_domain(registry, resource_type) =
            IF IsRegisteredType(resource_type) THEN RegisteredDomain(resource_type)
            ELSE DomainType(FirstMatch(<<
                    <<{"vpc", "subnet", "gateway"}, "networking">>, <<{"instance", "asg"}, "compute">>,
                    <<{"lambda"}, "serverless">>,
                    <<{"db", "dynamodb"}, "data">>, <<{"s3"}, "storage">>,
                    <<{"sqs", "sns"}, "messaging">>, <<{"iam"}, "identity">>,
                    <<{"cloudwatch"}, "observability">>, <<{"lb", "alb"}, "edge">>>>, resource_type))

\* A database instance the registry does not know was parsed into the
\* compute domain.
C25_Witness ==
    /\ ~IsRegisteredType("aws_db_instance")
    /\ "aws_db_instance.main" \in Keys(resources)
    /\ Get(resources, "aws_db_instance.main").domain_id = "domain_compute"

(***************************************************************************)
(* TerraformGenerator.  A rendered file is the sequence of its lines, a    *)
(* line the tuple of its pieces: <<"module", name>> opens a module block,  *)
(* <<"source", "./modules/", name>> is its source, <<"=", input, "module", *)
(* name, output>>, <<"=", input, "var", name>> and <<"=", input, "local",  *)
(* name>> are its arguments, <<"}">> closes it.  The three files of a      *)
(* module are rendered from templates; each is held as what its template   *)
(* is rendered from.                                                       *)
(***************************************************************************)
DomainOutput(name, type, description) == [name |-> name, type |-> type, description |-> description]

\* for out in more: if not any(o.name == out.name for o in outputs): outputs.append(out)
RECURSIVE AppendMissing(_, _)
AppendMissing(outputs, more) ==
    IF more = <<>> THEN outputs
    ELSE AppendMissing(IF \E i \in DOMAIN outputs : outputs[i].name = Head(more).name
                       THEN outputs ELSE Append(outputs, Head(more)),
                       Tail(more))

standard_outputs(domain_type) ==
    CASE domain_type = "networking" ->
            <<DomainOutput("vpc_id", "string", "VPC ID"),
              DomainOutput("public_subnet_ids", "list(string)", "Public subnet IDs"),
              DomainOutput("private_subnet_ids", "list(string)", "Private subnet IDs"),
              DomainOutput("security_group_web_id", "string", "Web security group ID"),
              DomainOutput("security_group_db_id", "string", "Database security group ID")>>
      [] domain_type = "compute" ->
            <<DomainOutput("asg_name", "string", "Auto Scaling Group name"),
              DomainOutput("launch_template_id", "string", "Launch Template ID")>>
      [] domain_type = "data" ->
            <<DomainOutput("db_endpoint", "string", "Database endpoint"),
              DomainOutput("db_name", "string", "Database name"),
              DomainOutput("db_port", "number", "Database port")>>
      [] OTHER -> <<>>

infer_outputs(domain, resource_list, reg) ==
    AppendMissing(
        AppendMissing(domain.outputs, standard_outputs(value(domain.type))),
        ForEach(resource_list, LAMBDA resource :
            IF get_service(reg, resource.type) = <<>> THEN <<>>
            ELSE LET exports == get_service(reg, resource.type)[1].exports
                 IN [i \in DOMAIN exports |->
                        DomainOutput(resource.name \o "_" \o exports[i], "string",
                                     exports[i] \o " from " \o resource.name)]))

\* name.split('-') and 'password' in name.lower(), for the names in use.
NameParts(name) ==
    CASE name = "rds-prod" -> <<"rds", "prod">>
      [] name = "rds-test" -> <<"rds", "test">>
      [] OTHER -> <<name>>
HasPassword(name) == name \in {"db_password", "db_password_dev", "db_password_prod", "db_password_staging"}

_generate_variables(domain, resource_list) ==
    LET db_password_envs ==
            {NameParts(resource_list[i].name)[Len(NameParts(resource_list[i].name))] :
                i \in {j \in DOMAIN resource_list :
                          /\ resource_list[j].type = "aws_db_instance"
                          /\ Len(NameParts(resource_list[j].name)) >= 2}}
                \cap {"dev", "staging", "prod"}
        sorted == SelectSeq(<<"dev", "prod", "staging">>, LAMBDA env : env \in db_password_envs)
        variables ==
            AppendMissing(domain.inputs,
                          [i \in DOMAIN sorted |->
                              [name |-> "db_password_" \o sorted[i], type |-> "string",
                               description |-> "Database password for " \o sorted[i]
                                                  \o " environment (sensitive)"]])
    IN [i \in DOMAIN variables |->
           LET v == variables[i]
           IN [name |-> v.name, type |-> v.type,
               required |-> IF HasPassword(v.name) THEN TRUE
                            ELSE IF "required" \in DOMAIN v THEN v.required ELSE FALSE,
               description |-> IF v.description # None /\ v.description # "" THEN v.description ELSE v.name,
               sensitive |-> HasPassword(v.name)]]

\* {r.id: r for r in resources}.values()
RECURSIVE UniqueById(_, _)
UniqueById(resource_list, unique) ==
    IF resource_list = <<>> THEN unique
    ELSE UniqueById(Tail(resource_list), Set(unique, Head(resource_list)))

TerraformModule(name, main_tf, variables_tf, outputs_tf) ==
    [name |-> name, main_tf |-> main_tf, variables_tf |-> variables_tf, outputs_tf |-> outputs_tf]

generate_module(domain, resource_list, reg) ==
    LET unique_resources_list == UniqueById(resource_list, <<>>)
    IN TerraformModule(domain.name,
                       [domain |-> domain.name, resources |-> unique_resources_list],
                       _generate_variables(domain, unique_resources_list),
                       infer_outputs(domain, unique_resources_list, reg))

domain_order == <<"networking", "compute", "data", "storage", "edge", "identity", "observability">>
\* The sort key: domain_order.index(d.type.value), or 999.
SortKey(domain) ==
    IF \E i \in DOMAIN domain_order : domain_order[i] = value(domain.type)
    THEN (CHOOSE i \in DOMAIN domain_order : domain_order[i] = value(domain.type)) - 1
    ELSE 999
\* sorted(domains, key=...): ascending by key, equal keys in their old order.
sorted_domains(domain_list) ==
    ForEach(<<0, 1, 2, 3, 4, 5, 6, 999>>, LAMBDA key :
        SelectSeq(domain_list, LAMBDA domain : SortKey(domain) = key))

generate_root_main(domain_list) ==
    <<<<"#", "Root module - wires all domains together">>>>
    \o ForEach(sorted_domains(domain_list), LAMBDA domain :
            <<<<"module", domain.name>>, <<"source", "./modules/", domain.name>>>>
            \o (CASE value(domain.type) = "compute" ->
                        <<<<"#", "Networking outputs">>,
                          <<"=", "vpc_id", "module", "networking", "vpc_id">>,
                          <<"=", "private_subnet_ids", "module", "networking", "private_subnet_ids">>,
                          <<"=", "security_group_web_id", "module", "networking", "security_group_web_id">>>>
                   [] value(domain.type) = "data" ->
                        <<<<"#", "Networking outputs">>,
                          <<"=", "vpc_id", "module", "networking", "vpc_id">>,
                          <<"=", "private_subnet_ids", "module", "networking", "private_subnet_ids">>,
                          <<"=", "security_group_db_id", "module", "networking", "security_group_db_id">>>>
                   [] value(domain.type) = "edge" ->
                        <<<<"#", "Compute outputs">>,
                          <<"=", "asg_name", "module", "compute", "asg_name">>>>
                   [] OTHER -> <<>>)
            \o [i \in DOMAIN domain.inputs |-> <<"=", domain.inputs[i].name, "var", domain.inputs[i].name>>]
            \o <<<<"}">>>>)

TerraformProject(modules, root_main, providers, terraform_config) ==
    [modules |-> modules, root_main |-> root_main, providers |-> providers,
     terraform_config |-> terraform_config]

\* The resources a domain's resource_ids name that are in the graph.
domain_resources(g, domain) ==
    LET listed == SelectSeq(domain.resource_ids, LAMBDA rid : rid \in Keys(g.resources))
    IN [i \in DOMAIN listed |-> Get(g.resources, listed[i])]

\* The loop of generate_project over the domains: modules[domain.name] = module
\* for each domain that has resources.
RECURSIVE GenerateModules(_, _, _, _)
GenerateModules(g, domain_list, reg, modules) ==
    IF domain_list = <<>> THEN modules
    ELSE LET domain == Head(domain_list)
         IN GenerateModules(g, Tail(domain_list), reg,
                IF domain_resources(g, domain) # <<>>
                THEN Set(modules, [id |-> domain.name,
                                   module |-> generate_module(domain, domain_resources(g, domain), reg)])
                ELSE modules)

generate_providers(region) == [aws_region |-> [type |-> "string", default |-> region]]
generate_terraform_config == [required_version |-> ">= 1.5.0"]

generate_project(g, reg) ==
    TerraformProject(GenerateModules(g, g.domains, reg, <<>>),
                     generate_root_main(g.domains),
                     generate_providers("us-east-1"),
                     generate_terraform_config)

(***************************************************************************)
(* The deployment aliases' names and the expansion of a list of resources. *)
(***************************************************************************)
\* text.split('-'), for the zone and region names in use.
split(text) ==
    CASE text = "us-east-1a" -> <<"us", "east", "1a">>
      [] text = "us-east-1b" -> <<"us", "east", "1b">>
      [] text = "us-east-1c" -> <<"us", "east", "1c">>
      [] text = "us-west-1a" -> <<"us", "west", "1a">>
      [] text = "us-east-1" -> <<"us", "east", "1">>
      [] text = "eu-west-1" -> <<"eu", "west", "1">>
      [] text = "ap-south-1" -> <<"ap", "south", "1">>
      [] OTHER -> <<text>>
\* text.replace('-', '_')
RECURSIVE Underscored(_)
Underscored(parts) ==
    IF Len(parts) = 1 THEN parts[1] ELSE parts[1] \o "_" \o Underscored(Tail(parts))

get_terraform_name(alias) ==
    IF alias.alias_type = "az"
    THEN alias.base_name \o "_" \o split(alias.alias_value[1])[Len(split(alias.alias_value[1]))]
    ELSE IF alias.alias_type = "region"
    THEN alias.base_name \o "_" \o Underscored(split(alias.alias_value[1]))
    ELSE alias.base_name

\* DeploymentAlias.to_dict
AliasToDict(alias) ==
    [resource_id |-> alias.resource_id, resource_type |-> alias.resource_type,
     base_name |-> alias.base_name, alias_type |-> alias.alias_type,
     alias_value |-> alias.alias_value, alias_index |-> alias.alias_index,
     terraform_name |-> get_terraform_name(alias), for_each_key |-> alias.alias_value]

\* {**base_arguments.get('tags', {}), key: text}
Tagged(base_arguments, key, text) ==
    LET tags == IF "tags" \in DOMAIN base_arguments THEN base_arguments.tags.v ELSE EmptyDict
    IN Dict([k \in DOMAIN tags \cup {key} |-> IF k = key THEN Str(text) ELSE tags[k]])

generate_terraform_expression(strategy, resource_type, base_arguments) ==
    IF strategy = DeploymentStrategy("per-az")
    THEN [for_each |-> Str("toset(local.availability_zones)"), availability_zone |-> Str("each.value"),
          tags |-> Tagged(base_arguments, "AZ", "${each.value}")]
    ELSE IF strategy = DeploymentStrategy("multi-az")
    THEN IF resource_type \in {"aws_lb", "aws_alb", "aws_nlb"}
         THEN [subnets |-> Str("${[for s in aws_subnet.main : s.id]}")]
         ELSE IF resource_type = "aws_rds_cluster"
         THEN [availability_zones |-> Str("local.availability_zones")]
         ELSE EmptyDict
    ELSE IF strategy = DeploymentStrategy("regional")
    THEN [for_each |-> Str("toset(local.regions)"), region |-> Str("each.value"),
          tags |-> Tagged(base_arguments, "Region", "${each.value}")]
    ELSE EmptyDict

generate_locals_block(cfg) ==
    <<<<"locals", "{">>, <<"=", "availability_zones", "list">> \o cfg.availability_zones,
      <<"=", "az_count", "length(local.availability_zones)">>,
      <<"=", "primary_region", "str", cfg.primary_region>>>>
    \o (IF Truthy(cfg.replica_regions)
        THEN <<<<"=", "regions", "list", cfg.primary_region>>
                 \o [i \in DOMAIN cfg.replica_regions.v |-> cfg.replica_regions.v[i].region]>>
        ELSE <<>>)
    \o <<<<"}">>>>

\* The loop of expand_infrastructure_for_deployment over the resources; an
\* exception of the strategy lookup or of expand_resource ends it.
RECURSIVE ExpandEach(_, _, _)
ExpandEach(resource_dicts, cfg, expanded_resources) ==
    IF resource_dicts = <<>> THEN Returned(expanded_resources)
    ELSE LET resource == Head(resource_dicts)
             strategy == DeploymentStrategy(IF "deployment" \in DOMAIN resource
                                               /\ "strategy" \in DOMAIN resource.deployment
                                            THEN resource.deployment.strategy ELSE "single")
             aliases == expand_resource(cfg, resource.id, resource.type, resource.name, strategy,
                                        resource.arguments)
         IN IF strategy = <<>> THEN Failed("ValueError", "is not a valid DeploymentStrategy")
            ELSE IF aliases.error # NoError THEN aliases
            ELSE ExpandEach(Tail(resource_dicts), cfg,
                     expanded_resources \o
                     [i \in DOMAIN aliases.result |->
                         [id |-> resource.id, type |-> resource.type, name |-> resource.name,
                          arguments |-> resource.arguments,
                          deployment_alias |-> AliasToDict(aliases.result[i]),
                          terraform_meta |-> generate_terraform_expression(strategy, resource.type,
                                                                           resource.arguments)]])

expand_infrastructure_for_deployment(resource_dicts, cfg) ==
    LET out == ExpandEach(resource_dicts, cfg, <<>>)
    IN IF out.error # NoError THEN out
       ELSE Returned([expanded_resources |-> out.result,
                      terraform_locals |-> generate_locals_block(cfg),
                      deployment_metadata |->
                          [primary_region |-> cfg.primary_region,
                           availability_zones |-> cfg.availability_zones,
                           total_aliases |-> Len(out.result)]])

(***************************************************************************)
(* TerraformGeneratorWithDeployment.                                       *)
(***************************************************************************)
\* A resource block: its meta-arguments first, then {**arguments, **the
\* other entries of terraform_meta}.
_generate_resource_block(expanded_resource) ==
    LET terraform_meta == expanded_resource.terraform_meta
        arguments == expanded_resource.arguments
        first == DOMAIN terraform_meta \cap {"for_each", "count"}
        others == DOMAIN terraform_meta \ {"for_each", "count"}
    IN [type |-> expanded_resource.type,
        terraform_name |-> expanded_resource.deployment_alias.terraform_name,
        meta |-> [k \in first |-> terraform_meta[k]],
        arguments |-> [k \in DOMAIN arguments \cup others |->
                          IF k \in others THEN terraform_meta[k] ELSE arguments[k]]]

\* The expanded resources grouped by base name, in order of first appearance.
RECURSIVE GroupByName(_, _)
GroupByName(expanded_resources, base_resources) ==
    IF expanded_resources = <<>> THEN base_resources
    ELSE LET exp_resource == Head(expanded_resources)
             old == IF exp_resource.name \in Keys(base_resources)
                    THEN Get(base_resources, exp_resource.name).instances ELSE <<>>
         IN GroupByName(Tail(expanded_resources),
                        Set(base_resources, [id |-> exp_resource.name,
                                             instances |-> Append(old, exp_resource)]))

infer_outputs_with_deployment(domain, expanded_resources, reg) ==
    AppendMissing(domain.outputs,
        ForEach(GroupByName(expanded_resources, <<>>), LAMBDA group :
            LET first_instance == group.instances[1]
                service == get_service(reg, first_instance.type)
            IN IF service = <<>> THEN <<>>
               ELSE [i \in DOMAIN service[1].exports |->
                       LET export == service[1].exports[i]
                       IN IF Len(group.instances) > 1
                          THEN IF first_instance.deployment_alias.alias_type = "az"
                               THEN DomainOutput(group.id \o "_" \o export \o "_by_az", "string",
                                                 export \o " from " \o group.id \o " mapped by AZ")
                               ELSE DomainOutput(group.id \o "_" \o export \o "_list", "string",
                                                 "List of " \o export \o " from " \o group.id \o " instances")
                          ELSE DomainOutput(group.id \o "_" \o export, "string",
                                            export \o " from " \o group.id)]))

\* Resource has no deployment attribute, so every resource is handed to the
\* expansion with {'strategy': 'single'}.
generate_module_with_deployment(domain, resource_list, cfg, reg) ==
    LET resource_dicts == [i \in DOMAIN resource_list |->
                              [id |-> resource_list[i].id, type |-> resource_list[i].type,
                               name |-> resource_list[i].name,
                               arguments |-> resource_list[i].arguments,
                               deployment |-> [strategy |-> "single"]]]
        expansion_out == expand_infrastructure_for_deployment(resource_dicts, cfg).result
    IN TerraformModule(domain.name,
                       [locals |-> expansion_out.terraform_locals,
                        resources |-> [i \in DOMAIN expansion_out.expanded_resources |->
                                          _generate_resource_block(expansion_out.expanded_resources[i])]],
                       domain.inputs,
                       infer_outputs_with_deployment(domain, expansion_out.expanded_resources, reg))

generate_root_main_with_deployment(domain_list, cfg) ==
    <<<<"#", "Root module - wires all domains together">>, <<>>,
      <<"#", "Deployment Configuration">>, <<"locals", "{">>,
      <<"=", "primary_region", "str", cfg.primary_region>>,
      <<"=", "availability_zones", "list">> \o cfg.availability_zones,
      <<"}">>, <<>>>>
    \o ForEach(domain_list, LAMBDA domain :
            <<<<"module", domain.name>>, <<"source", "./modules/", domain.name>>, <<>>,
              <<"#", "Deployment configuration">>,
              <<"=", "primary_region", "local", "primary_region">>,
              <<"=", "availability_zones", "local", "availability_zones">>, <<>>>>
            \o [i \in DOMAIN domain.inputs |-> <<"=", domain.inputs[i].name, "var", domain.inputs[i].name>>]
            \o <<<<"}">>, <<>>>>)

RECURSIVE GenerateModulesWithDeployment(_, _, _, _, _)
GenerateModulesWithDeployment(g, domain_list, cfg, reg, modules) ==
    IF domain_list = <<>> THEN modules
    ELSE LET domain == Head(domain_list)
         IN GenerateModulesWithDeployment(g, Tail(domain_list), cfg, reg,
                IF domain_resources(g, domain) # <<>>
                THEN Set(modules, [id |-> domain.name,
                                   module |-> generate_module_with_deployment(
                                                  domain, domain_resources(g, domain), cfg, reg)])
                ELSE modules)

\* deployment_config.get(key, default) for the three keys of the dict.
ConfigFrom(deployment_config) ==
    DeploymentConfig(
        IF "primaryRegion" \in DOMAIN deployment_config THEN deployment_config.primaryRegion
        ELSE "us-east-1",
        IF "availabilityZones" \in DOMAIN deployment_config THEN deployment_config.availabilityZones
        ELSE <<"us-east-1a", "us-east-1b", "us-east-1c">>,
        IF "replicaRegions" \in DOMAIN deployment_config THEN deployment_config.replicaRegions
        ELSE PyNone)

generate_project_with_deployment(g, deployment_config, reg) ==
    LET cfg == ConfigFrom(deployment_config)
    IN TerraformProject(GenerateModulesWithDeployment(g, g.domains, cfg, reg, <<>>),
                        generate_root_main_with_deployment(g.domains, cfg),
                        generate_providers(cfg.primary_region),
                        generate_terraform_config)

(***************************************************************************)
(* The routes /generate and /export.                                       *)
(***************************************************************************)
\* camel_to_snake, for the keys in use.
camel_to_snake(name) ==
    CASE name = "domainId" -> "domain_id"
      [] name = "resourceIds" -> "resource_ids"
      [] name = "sourceId" -> "source_id"
      [] name = "targetId" -> "target_id"
      [] OTHER -> name
\* convert_keys_to_snake on a dict; two keys with one snake form keep one value.
SnakeKeys(dict) ==
    [key \in {camel_to_snake(k) : k \in DOMAIN dict} |->
        dict[CHOOSE k \in DOMAIN dict : camel_to_snake(k) = key]]
convert_keys_to_snake(graph_dict) ==
    [domains |-> [i \in DOMAIN graph_dict.domains |-> SnakeKeys(graph_dict.domains[i])],
     resources |-> [i \in DOMAIN graph_dict.resources |-> SnakeKeys(graph_dict.resources[i])],
     connections |-> [i \in DOMAIN graph_dict.connections |-> SnakeKeys(graph_dict.connections[i])]]

\* The outcome of a route: the response, or the HTTPException raised.
Response(body) == [body |-> <<body>>, error |-> NoError]
HTTPException(status_code, detail) == [body |-> <<>>, error |-> <<"HTTPException", status_code, detail>>]

generate_terraform(graph_data, reg) ==
    LET out == from_dict(convert_keys_to_snake(graph_data))
    IN IF out.error # NoError THEN HTTPException(422, out.error)
       ELSE Response([route |-> "generate", project |-> generate_project(out.graph, reg)])

\* The entries written to the ZIP file.
ZipEntries(generated) ==
    ForEach(generated.modules, LAMBDA m :
        <<<<"modules/", m.id, "/main.tf">>, <<"modules/", m.id, "/variables.tf">>,
          <<"modules/", m.id, "/outputs.tf">>>>)
    \o <<<<"main.tf">>, <<"providers.tf">>, <<"terraform.tf">>>>

\* The HTTPException of the format test is raised inside the try block and
\* leaves the route as a 500.
export_project(graph_data, format, reg) ==
    LET out == from_dict(convert_keys_to_snake(graph_data))
    IN IF out.error # NoError THEN HTTPException(500, out.error)
       ELSE IF format = "zip"
       THEN Response([route |-> "export", project |-> generate_project(out.graph, reg),
                      zip |-> ZipEntries(generate_project(out.graph, reg))])
       ELSE HTTPException(500, <<"Only 'zip' format is supported">>)

(***************************************************************************)
(* The generation state machine: a graph of up to MaxModules domains, each *)
(* with or without a resource, validated or not, handed to the two routes  *)
(* and to the two generators.                                              *)
(***************************************************************************)
MaxModules == 3

GeneratedTypes == {"networking", "compute", "data", "edge", "serverless"}

\* The i-th domain of a generated graph: of the given type, named after its
\* type or not.
GeneratedDomain(i, type, renamed) ==
    [id |-> "d" \o ToString(i), name |-> IF renamed THEN "mod" \o ToString(i) ELSE type,
     type |-> DomainType(type), resource_ids |-> <<>>,
     inputs |-> IF i = 1
                THEN <<[name |-> "environment", type |-> "string", required |-> TRUE,
                        description |-> None]>>
                ELSE <<>>,
     outputs |-> <<>>]
GeneratedResource(i, type) ==
    [id |-> "r" \o ToString(i), type |-> IF type = "data" THEN "aws_db_instance" ELSE "aws_subnet",
     domain_id |-> "d" \o ToString(i), name |-> IF type = "data" THEN "rds-prod" ELSE "main",
     arguments |-> IF type = "data" THEN EmptyDict ELSE [vpc_id |-> Str("vpc-1")]]

\* The graph after add_domain of each chosen domain and add_resource of its
\* resource, if it has one.
RECURSIVE Generated(_, _, _)
Generated(g, choice, i) ==
    IF i > Len(choice) THEN g
    ELSE LET with_domain == add_domain(g, GeneratedDomain(i, choice[i][1], choice[i][2])).graph
         IN Generated(IF choice[i][3]
                      THEN add_resource(with_domain, GeneratedResource(i, choice[i][1])).graph
                      ELSE with_domain,
                      choice, i + 1)

DeploymentInputs ==
    <<EmptyDict,
      [primaryRegion |-> "eu-west-1", availabilityZones |-> <<"eu-west-1a", "eu-west-1b">>]>>

InitG ==
    /\ \E n \in 1..MaxModules :
          \E choice \in [1..n -> GeneratedTypes \X BOOLEAN \X BOOLEAN] :
              Holds(Generated(EmptyGraph, choice, 1))
    /\ ret = NoError
    /\ registry = LoadedRegistry
    /\ overrides = <<>> /\ results = <<>>
    /\ domain_index = <<>> /\ files = <<>> /\ config = <<>> /\ expansion = <<>>
    /\ terraform_project = <<>>

\* A route was called with the graph as the client holds it.
Route(op, out) ==
    /\ terraform_project' = out.body
    /\ ret' = Raised(op, out.error)
    /\ UNCHANGED <<domains, resources, connections, registry, overrides, results,
                   domain_index, files, config, expansion>>

GenerateTerraform == Route("generate_terraform", generate_terraform(to_dict(Graph), registry))
ExportProject ==
    \E format \in {"zip", "directory"} :
        Route("export_project", export_project(to_dict(Graph), format, registry))

\* The generators called on the graph itself.
GenerateProject ==
    Route("generate_project",
          Response([route |-> "TerraformGenerator", project |-> generate_project(Graph, registry)]))
GenerateProjectWithDeployment ==
    \E i \in DOMAIN DeploymentInputs :
        Route("generate_project",
              Response([route |-> "TerraformGeneratorWithDeployment",
                        project |-> generate_project_with_deployment(Graph, DeploymentInputs[i], registry)]))

NextG ==
    \/ ValidateGraph
    \/ GenerateTerraform \/ ExportProject
    \/ GenerateProject \/ GenerateProjectWithDeployment

SpecG == InitG /\ [][NextG]_vars

(***************************************************************************)
(* Claims about generation.                                                *)
(***************************************************************************)
Emitted == terraform_project # <<>>
EmittedBy(routes) == Emitted /\ terraform_project[1].route \in routes
RootMain == terraform_project[1].project.root_main
Modules == terraform_project[1].project.modules

IsModuleLine(line, name) == Len(line) = 2 /\ line[1] = "module" /\ line[2] = name
\* The positions of the lines that open a block of the given module name.
BlocksOf(lines, name) == {i \in DOMAIN lines : IsModuleLine(lines[i], name)}
\* The positions of the lines of the block opened at position i.
BodyOf(lines, i) ==
    {k \in DOMAIN lines : k > i /\ \A j \in (i + 1)..k : lines[j] # <<"}">>}
DomainsOfType(types) == {i \in DOMAIN domains : value(domains[i].type) \in types}

\* The blocks of the domains of the first types all come before the blocks
\* of the domains of the second types.
BlocksInOrder(first, second) ==
    \A a \in DomainsOfType(first), b \in DomainsOfType(second) :
        \A i \in BlocksOf(RootMain, domains[a].name), j \in BlocksOf(RootMain, domains[b].name) : i < j

\* C23: in every emitted root wiring, of either generator, a networking
\* domain's module block comes before every compute and data domain's
\* block, and a compute domain's block before every edge domain's block.
C23_BlocksInPrecedenceOrder ==
    Emitted =>
        /\ BlocksInOrder({"networking"}, {"compute", "data"})
        /\ BlocksInOrder({"compute"}, {"edge"})

\* C24: with exactly one networking and one compute domain, the block of the
\* compute domain's module in the root wiring of TerraformGenerator has an
\* argument module.<networking domain's name>.private_subnet_ids, and the
\* module generated under that name has the output private_subnet_ids.
C24_SubnetListPassedToCompute ==
    (/\ EmittedBy({"generate", "export", "TerraformGenerator"})
     /\ Cardinality(DomainsOfType({"networking"})) = 1
     /\ Cardinality(DomainsOfType({"compute"})) = 1) =>
        LET networking == domains[CHOOSE i \in DOMAIN domains : value(domains[i].type) = "networking"]
            compute == domains[CHOOSE i \in DOMAIN domains : value(domains[i].type) = "compute"]
        IN /\ \E i \in BlocksOf(RootMain, compute.name) :
                 \E k \in BodyOf(RootMain, i) :
                     /\ Len(RootMain[k]) = 5
                     /\ RootMain[k][3] = "module"
                     /\ RootMain[k][4] = networking.name
                     /\ RootMain[k][5] = "private_subnet_ids"
           /\ networking.name \in Keys(Modules)
           /\ \E i \in DOMAIN Get(Modules, networking.name).module.outputs_tf :
                 Get(Modules, networking.name).module.outputs_tf[i].name = "private_subnet_ids"

\* C26: a /generate or /export request emits a project only for a graph on
\* which validate_graph has been run with no blocking error in its result.
C26_GeneratedOnlyAfterCleanValidation ==
    [][((GenerateTerraform \/ ExportProject) /\ Emitted')
          => (Validated /\ ~has_blocking_errors(results[1]))]_vars

\* C28: every module the emitted root wiring names, as the source directory
\* of a block or in a module.<name>.<output> reference, is a key of the
\* emitted modules map.
C28_ReferencedModulesExist ==
    Emitted =>
        \A k \in DOMAIN RootMain :
            /\ (Len(RootMain[k]) = 3 /\ RootMain[k][1] = "source") => RootMain[k][3] \in Keys(Modules)
            /\ (Len(RootMain[k]) = 5 /\ RootMain[k][3] = "module") => RootMain[k][4] \in Keys(Modules)

(***************************************************************************)
(* Claims about the aliases' names and the address blocks.                 *)
(***************************************************************************)
Distinct(list) == \A i, j \in DOMAIN list : i # j => list[i] # list[j]

\* C29: the aliases of one expand_resource call have pairwise distinct
\* derived names, under per-az for pairwise distinct zone names and under
\* regional for pairwise distinct regions.
C29_DerivedNamesDistinct ==
    LET aliases == expansion[1].out.result
    IN (\/ Expanded("per-az") /\ Distinct(config.availability_zones)
        \/ Expanded("regional") /\ Distinct(<<config.primary_region>> \o ReplicaRegions))
          => Distinct([i \in DOMAIN aliases |-> get_terraform_name(aliases[i])])

\* C30: every block generate_cidr_calculations returns has four octets
\* within 0..255 and prefix length 24, there is one block for each
\* configured zone, and the blocks are pairwise distinct.
C30_BlocksValidAndDistinct ==
    (/\ expansion # <<>>
     /\ expansion[1].call = "generate_cidr_calculations"
     /\ expansion[1].out.error = NoError
     /\ Len(expansion[1].vpc_cidr.octets) = 4
     /\ IsOctet(expansion[1].vpc_cidr.octets[3])) =>
        LET cidrs == expansion[1].out.result
        IN /\ Keys(cidrs) = Elems(config.availability_zones)
           /\ \A i \in DOMAIN cidrs :
                 /\ cidrs[i].block.prefix = 24
                 /\ Len(cidrs[i].block.octets) = 4
                 /\ \A k \in 1..4 : IsOctet(cidrs[i].block.octets[k])
           /\ Distinct([i \in DOMAIN cidrs |-> cidrs[i].block])

====
